---- MODULE Spec2Model ----
(***************************************************************************)
(* A model of validator/generator.go of protoc-gen-validator: the compiler *)
(* that turns the rules attached to the fields of protobuf messages into   *)
(* Validate() procedures, and of the procedures it emits.                  *)
(*                                                                         *)
(* The generator is modelled statement by statement: every declaration,   *)
(* check, loop header and block end it prints appends one abstract         *)
(* statement to the generated file `out`.  Texts that the generator        *)
(* computes (temporary names, operands, enum symbols) are kept as strings, *)
(* built the way the code builds them.  The emitted procedure is then run  *)
(* on message instances by an interpreter of the statements (Validate).    *)
(***************************************************************************)
EXTENDS Integers, Sequences, FiniteSets, TLC

(***************************************************************************)
(* Bounds of the model.                                                    *)
(***************************************************************************)
MaxRules == 2      \* rules (inner ones included) carried by one field
MaxFields == 2     \* fields with rules in one schema file (multi-field family)
MaxMsgs == 2       \* messages in one schema file
MaxElems == 2      \* elements of a list / entries of a map at validation time
MaxSegs == 3       \* dot-separated segments of an enum const identifier

(***************************************************************************)
(* parser.ValidationValue / parser.ToolFunction / parser.Rule, with the    *)
(* fields the generator reads.  TypedValue is a Go struct: every member    *)
(* exists and holds its zero value unless populated.                       *)
(***************************************************************************)
NoFunction == [Name |-> "", Arguments |-> <<>>]

ValidationValue(vt, i, d, b, bin, ref, f) ==
    [ValueType |-> vt, Int |-> i, Double |-> d, Bool |-> b, Binary |-> bin,
     FieldReference |-> ref, Function |-> f]

IntV(n) == ValidationValue("int", n, 0, FALSE, <<>>, "", NoFunction)
DoubleV(n) == ValidationValue("double", 0, n, FALSE, <<>>, "", NoFunction)
BoolV(b) == ValidationValue("bool", 0, 0, b, <<>>, "", NoFunction)
BinaryV(s) == ValidationValue("binary", 0, 0, FALSE, s, "", NoFunction)
FieldRefV(name) == ValidationValue("fieldref", 0, 0, FALSE, <<>>, name, NoFunction)
FuncV(name, args) ==
    ValidationValue("func", 0, 0, FALSE, <<>>, "", [Name |-> name, Arguments |-> args])
NoValue == ValidationValue("", 0, 0, FALSE, <<>>, "", NoFunction)

Rule(key, specified, range, inner) ==
    [Key |-> key, Specified |-> specified, Range |-> range, Inner |-> inner]

SpecifiedRule(key, v) == Rule(key, v, <<>>, <<>>)
RangeRule(key, vs) == Rule(key, NoValue, vs, <<>>)
InnerRule(key, rules) == Rule(key, NoValue, <<>>, rules)

\* parser rule keys (the closed enumeration of constraint kinds)
RuleKeys ==
    {"not_nil", "const", "lt", "le", "gt", "ge", "in", "not_in", "min_size",
     "max_size", "prefix", "suffix", "contains", "not_contains", "pattern",
     "defined_only", "skip", "assert", "no_sparse", "map_key", "map_value", "elem"}

ValueTypes == {"int", "double", "bool", "binary", "fieldref", "func"}

\* GetFieldReferenceName(prefix): the read of another field of the same message
GetFieldReferenceName(v, prefix) == prefix \o v.FieldReference

(***************************************************************************)
(* Descriptors.  A field descriptor carries what the generator asks of     *)
(* protogen.Field.Desc: Kind(), IsList(), IsMap(), MapKey(), MapValue(),   *)
(* Enum().Name().  Kind() of a list field is its element kind; Kind() of a *)
(* map field is message (the entry message).                               *)
(***************************************************************************)
NumericKinds == {"int32", "sint32", "uint32", "int64", "sint64", "uint64",
                 "sfixed32", "fixed32", "sfixed64", "fixed64", "float", "double"}

Field(name, kind, isList, isMap, keyKind, valueKind, enumName) ==
    [Name |-> name, Kind |-> kind, IsList |-> isList, IsMap |-> isMap,
     MapKey |-> keyKind, MapValue |-> valueKind, Enum |-> enumName,
     EnumPackage |-> IF enumName = "" THEN "" ELSE "p"]

ScalarField(name, kind) == Field(name, kind, FALSE, FALSE, "", "", "")
EnumField(name, enum) == Field(name, "enum", FALSE, FALSE, "", "", enum)
ListField(name, kind) == Field(name, kind, TRUE, FALSE, "", "", "")
MapField(name, keyKind, valueKind) ==
    Field(name, "message", FALSE, TRUE, keyKind, valueKind, "")

\* The schema files handed to the plugin (g.Files): package, Go package name
\* and top-level enums with their values.
EnumValue(enum, name, number) ==
    [Name |-> name, GoName |-> enum \o "_" \o name, Number |-> number]

PluginFiles ==
    << [Package |-> "p", GoPackageName |-> "pgo",
        Enums |-> << [Name |-> "E",
                      Values |-> <<EnumValue("E", "V", 0), EnumValue("E", "X", 1)>>] >>],
       [Package |-> "q", GoPackageName |-> "qgo",
        Enums |-> << [Name |-> "E", Values |-> <<EnumValue("E", "V", 5)>>],
                     [Name |-> "p", Values |-> <<EnumValue("p", "E", 7)>>] >>] >>

(***************************************************************************)
(* The function registry (config.GetFunction): the registered templates,   *)
(* whether executing the template succeeds, and the import paths its       *)
(* "Import" sub-template lists (none when it has no such sub-template).    *)
(***************************************************************************)
RegisteredFunctions == {"custom", "plain", "broken"}

GetFunction(name) ==
    CASE name = "custom" -> [Name |-> "custom", Executes |-> TRUE, Import |-> {"x/y", "z"}]
      [] name = "plain" -> [Name |-> "plain", Executes |-> TRUE, Import |-> {}]
      [] name = "broken" -> [Name |-> "broken", Executes |-> FALSE, Import |-> {"z"}]
      [] OTHER -> [Name |-> "", Executes |-> FALSE, Import |-> {}]

BuiltinFunctions == {"len", "sprintf", "equal", "mod", "add", "now_unix_nano"}

(***************************************************************************)
(* Text helpers.                                                           *)
(***************************************************************************)
RECURSIVE Join(_)
Join(chars) == IF chars = <<>> THEN "" ELSE Head(chars) \o Join(Tail(chars))

\* strings.Split(s, "."), on a string held as its sequence of characters
RECURSIVE Split(_)
Split(s) ==
    IF \A i \in 1..Len(s) : s[i] # "."
    THEN <<s>>
    ELSE LET i == CHOOSE k \in 1..Len(s) :
                      s[k] = "." /\ \A j \in 1..(k - 1) : s[j] # "."
         IN  <<SubSeq(s, 1, i - 1)>> \o Split(SubSeq(s, i + 1, Len(s)))

FormatInt(n) == ToString(n)
FormatFloat(d) == ToString(d)          \* 'f', -1: a whole double prints without fraction
FormatBool(b) == IF b THEN "true" ELSE "false"
Quote(bin) == "\"" \o Join(bin) \o "\""

\* fieldGoType: the Go type of a field of the given kind
fieldGoType(kind) ==
    CASE kind \in {"int32", "sint32", "sfixed32"} -> "int32"
      [] kind \in {"uint32", "fixed32"} -> "uint32"
      [] kind \in {"int64", "sint64", "sfixed64"} -> "int64"
      [] kind \in {"uint64", "fixed64"} -> "uint64"
      [] kind = "float" -> "float32"
      [] kind = "double" -> "float64"
      [] kind = "bool" -> "bool"
      [] kind = "string" -> "string"
      [] kind = "bytes" -> "[]byte"
      [] OTHER -> "*" \o kind

IsBaseType(field) == field.Kind \notin {"message", "enum", "group"}

(***************************************************************************)
(* The generator's state while Generate runs: the statements written to    *)
(* the generated file, the identifier counters (one per allocation scope:  *)
(* "msg" is the map every ValidateContext of the current message shares),  *)
(* the used function templates and the error being returned ("" is nil).   *)
(***************************************************************************)
IdScopes == {"msg", "own"}

P(g, stmt) == [g EXCEPT !.out = Append(@, stmt)]
Fail(g, e) == [g EXCEPT !.err = e]
\* if err != nil { return err } after a call, then the statement that follows
ThenP(g, stmt) == IF g.err # "" THEN g ELSE P(g, stmt)

\* ValidateContext.GenID: the prefix followed by the scope's counter
GenName(g, vc, prefix) == prefix \o ToString(g.ids[vc.ids])
GenID(g, vc) == [g EXCEPT !.ids[vc.ids] = @ + 1]

ValidateContext(fieldName, rawFieldName, getNameFunc, rules, rawField, pkg, ids, vtype) ==
    [FieldName |-> fieldName, RawFieldName |-> rawFieldName,
     GetNameFunc |-> getNameFunc, Rules |-> rules, RawField |-> rawField,
     PbPackage |-> pkg, ids |-> ids, ValidationType |-> vtype]

\* Emitted statements
Decl(name, expr) == [op |-> "decl", name |-> name, expr |-> expr]
Cond(c, t, s, ty) == [c |-> c, t |-> t, s |-> s, ty |-> ty]
Check(key, said, field, cond, carries) ==
    [op |-> "check", key |-> key, said |-> said, field |-> field, cond |-> cond,
     carries |-> carries, wraps |-> FALSE]
CheckWrapping(key, said, field, cond) ==
    [op |-> "check", key |-> key, said |-> said, field |-> field, cond |-> cond,
     carries |-> "none", wraps |-> TRUE]
For(kind, var, over) == [op |-> "for", kind |-> kind, var |-> var, over |-> over]
End == [op |-> "end"]
Blank == [op |-> "blank"]
Stmt(o) == [op |-> o]

(***************************************************************************)
(* generateFunction / renderValidationValue                                *)
(***************************************************************************)
RECURSIVE generateFunction(_, _, _, _)
RECURSIVE renderValidationValue(_, _, _)
RECURSIVE renderArguments(_, _, _, _, _)

\* sprintf keeps the binary and field-reference arguments, and drops the rest
RECURSIVE sprintfArguments(_)
sprintfArguments(args) ==
    IF args = <<>> THEN <<>>
    ELSE LET arg == Head(args)
             rest == sprintfArguments(Tail(args))
         IN  CASE arg.ValueType = "binary" -> <<Quote(arg.Binary)>> \o rest
               [] arg.ValueType = "fieldref" -> <<GetFieldReferenceName(arg, "m.")>> \o rest
               [] OTHER -> rest

\* the nested call's error is dropped: only the name is returned
renderFunctionValue(vc, val, g) ==
    LET source == GenName(g, vc, "_src")
        g1 == generateFunction(source, vc, val.Function, GenID(g, vc))
    IN  [name |-> source, err |-> "", g |-> Fail(g1, "")]

renderValidationValue(vc, val, g) ==
    CASE val.ValueType = "double" ->
           [name |-> "float64(" \o ToString(val.Double) \o ".000000)", err |-> "", g |-> g]
      [] val.ValueType = "int" ->
           [name |-> "int64(" \o ToString(val.Int) \o ")", err |-> "", g |-> g]
      [] val.ValueType = "func" -> renderFunctionValue(vc, val, g)
      [] val.ValueType = "fieldref" ->
           [name |-> GetFieldReferenceName(val, "m."), err |-> "", g |-> g]
      [] OTHER ->
           [name |-> "", err |-> "value type is not supported for equal", g |-> g]

\* the loop over f.Arguments of a binary function: the rendered names, or the error
argumentRendered(vc, arguments, i, names, r) ==
    IF r.err # "" THEN [names |-> names, g |-> Fail(r.g, r.err)]
    ELSE renderArguments(vc, arguments, i + 1, Append(names, r.name), r.g)

renderArguments(vc, arguments, i, names, g) ==
    IF i > Len(arguments) THEN [names |-> names, g |-> g]
    ELSE argumentRendered(vc, arguments, i, names,
                          renderValidationValue(vc, arguments[i], g))

\* a binary function's declaration, once its arguments are rendered
binaryFunction(source, f, r) ==
    IF r.g.err # "" THEN r.g
    ELSE IF Len(r.names) < 2
    THEN Fail(r.g, "binary function needs at least 2 arguments")
    ELSE P(r.g, Decl(source, [e |-> f.Name, a |-> r.names[1], b |-> r.names[2]]))

generateFunction(source, vc, f, g) ==
    CASE f.Name = "len" ->
           P(g, Decl(source, [e |-> "len",
                              a |-> GetFieldReferenceName(f.Arguments[1], "m.")]))
      [] f.Name = "sprintf" ->
           P(g, Decl(source, [e |-> "sprintf", args |-> sprintfArguments(f.Arguments)]))
      [] f.Name \in {"equal", "mod", "add"} ->
           binaryFunction(source, f, renderArguments(vc, f.Arguments, 1, <<>>, g))
      [] f.Name = "now_unix_nano" -> P(g, Decl(source, [e |-> "now"]))
      [] OTHER ->
           LET funcTemplate == GetFunction(f.Name)
           IN  IF funcTemplate.Name = "" THEN Fail(g, "unknown function: " \o f.Name)
               ELSE IF ~funcTemplate.Executes
               THEN Fail(g, "execute function's template failed")
               ELSE [P(g, Decl(source, [e |-> "template", f |-> f.Name]))
                        EXCEPT !.usedFuncs = @ \cup {f.Name}]

(***************************************************************************)
(* Enum const resolution                                                   *)
(***************************************************************************)
\* The (file, enum, value) positions of g.Files whose package, enum name and value
\* name match, and the one the nested loops reach first.
EnumPositions(pkg, enumName, valueName) ==
    {<<i, j, k>> \in (1..Len(PluginFiles)) \X (1..2) \X (1..2) :
        /\ j <= Len(PluginFiles[i].Enums)
        /\ k <= Len(PluginFiles[i].Enums[j].Values)
        /\ PluginFiles[i].Package = pkg
        /\ PluginFiles[i].Enums[j].Name = enumName
        /\ PluginFiles[i].Enums[j].Values[k].Name = valueName}

Before(a, b) ==
    \/ a[1] < b[1]
    \/ a[1] = b[1] /\ a[2] < b[2]
    \/ a[1] = b[1] /\ a[2] = b[2] /\ a[3] <= b[3]

FirstPosition(ps) == CHOOSE a \in ps : \A b \in ps : Before(a, b)

getCurPackageEnumValue(divId, vc) ==
    LET curPackage == vc.PbPackage
        found == EnumPositions(curPackage, Join(divId[1]), Join(divId[2]))
    IN  IF found = {}
        THEN [sym |-> "", err |-> "can not find enum value in package"]
        ELSE LET at == FirstPosition(found)
             IN  [sym |-> PluginFiles[at[1]].Enums[at[2]].Values[at[3]].GoName,
                  err |-> ""]

\* a wrong resolver: the package segment is dropped and the current package searched
getDepPackageAsCurrent(divId, vc) == getCurPackageEnumValue(Tail(divId), vc)

getDepPackageEnumValue(divId, vc) ==
    LET found == EnumPositions(Join(divId[1]), Join(divId[2]), Join(divId[3]))
    IN  IF found = {}
        THEN [sym |-> "", err |-> "can not find enum value in package"]
        ELSE LET at == FirstPosition(found)
             IN  [sym |-> PluginFiles[at[1]].GoPackageName \o "." \o
                          PluginFiles[at[1]].Enums[at[2]].Values[at[3]].GoName,
                  err |-> ""]

getEnumValue(rule, vc) ==
    LET identifier == rule.Specified.Binary
        divId == Split(identifier)
    IN  CASE Len(divId) = 2 -> getCurPackageEnumValue(divId, vc)
          [] Len(divId) = 3 -> getDepPackageEnumValue(divId, vc)
          [] OTHER -> [sym |-> "", err |-> "wrong format for enum rule"]

(***************************************************************************)
(* generateSlice: the literal slice of an in / not_in rule                 *)
(***************************************************************************)
sliceElement(typeID, goType, val) ==
    LET source ==
          IF val.ValueType = "fieldref" THEN GetFieldReferenceName(val, "m.")
          ELSE CASE typeID \in {"float", "double"} -> FormatFloat(val.Double)
                 [] typeID \in {"string", "bytes"} -> Quote(val.Binary)
                 [] OTHER -> FormatInt(val.Int)
    IN  goType \o "(" \o source \o ")"

generateSlice(name, vc, vals, g) ==
    LET typeID == vc.RawField.Kind
        goType == fieldGoType(vc.RawField.Kind)
    IN  IF Len(vals) = 0 THEN Fail(g, "empty validation values")
        ELSE IF ~IsBaseType(vc.RawField)
        THEN Fail(g, "type not supported in generate slice")
        ELSE IF typeID \notin (NumericKinds \cup {"string", "bytes"})
        THEN Fail(g, "type not supported in generate slice")
        ELSE P(g, Decl(name, [e |-> "slice", ty |-> goType,
                              elems |-> [i \in 1..Len(vals) |->
                                            sliceElement(typeID, goType, vals[i])]]))

(***************************************************************************)
(* The validators.  Each is a loop over vc.Rules whose body is modelled by *)
(* a ...Rule operator: it takes the loop's local variable (source, or skip)*)
(* as left by the previous iteration and returns it with the new state.    *)
(***************************************************************************)
R(g, local) == [g |-> g, local |-> local]

RECURSIVE generateFieldValidation(_, _, _)
RECURSIVE RulesLoop(_, _, _, _)
RECURSIVE RuleStep(_, _, _, _, _)

\* ---- enum ----
enumSource(vc, rule, source, g) ==
    CASE rule.Key = "const" ->
           LET enumConst == getEnumValue(rule, vc)
               src == GenName(g, vc, "_src")
           IN  IF enumConst.err # "" THEN R(Fail(g, enumConst.err), source)
               ELSE R(P(GenID(g, vc), Decl(src, [e |-> "symbol", sym |-> enumConst.sym])), src)
      [] rule.Key \in {"defined_only", "not_nil"} -> R(g, source)
      [] OTHER -> R(Fail(g, "unknown bool annotation"), source)

enumCheck(vc, rule, source, g) ==
    LET target == vc.GetNameFunc
        enumNameMap == vc.RawField.Enum \o "_name"
    IN  CASE rule.Key = "const" ->
               P(g, Check("const", "const", vc.RawFieldName,
                          Cond("!=", target, source, ""), "value"))
          [] rule.Key = "defined_only" ->
               IF rule.Specified.Bool
               THEN P(g, Check("defined_only", "defined_only", vc.RawFieldName,
                               Cond("undefined", target, enumNameMap, "int32"), "none"))
               ELSE g
          [] rule.Key = "not_nil" -> g
          [] OTHER -> Fail(g, "unknown enum annotation")

\* the source's error is returned before the check is written
enumChecked(vc, rule, s) ==
    IF s.g.err # "" THEN s ELSE R(enumCheck(vc, rule, s.local, s.g), s.local)

generateEnumValidationRule(vc, rule, source, g) ==
    enumChecked(vc, rule, enumSource(vc, rule, source, g))

\* ---- numeric ----
numericSource(vc, rule, source, g) ==
    CASE rule.Key \in {"const", "lt", "le", "gt", "ge"} ->
           LET vt == rule.Specified
               src == GenName(g, vc, "_src")
           IN  CASE vt.ValueType = "int" -> R(g, FormatInt(vt.Int))
                 [] vt.ValueType = "double" -> R(g, FormatFloat(vt.Double))
                 [] vt.ValueType = "fieldref" -> R(g, GetFieldReferenceName(vt, "m."))
                 [] vt.ValueType = "func" ->
                      R(ThenP(generateFunction(src, vc, vt.Function, GenID(g, vc)), Blank),
                        src)
                 [] OTHER ->
                      R(Fail(g, "unsupported value type in numeric validation"), source)
      [] rule.Key \in {"in", "not_in"} ->
           LET src == GenName(g, vc, "_src")
           IN  R(generateSlice(src, vc, rule.Range, GenID(g, vc)), src)
      [] rule.Key = "not_nil" -> R(g, source)
      [] OTHER -> R(Fail(g, "unknown numeric annotation"), source)

numericCheck(vc, rule, source, g) ==
    LET target == vc.GetNameFunc
        typeName == fieldGoType(vc.RawField.Kind)
        exist == GenName(g, vc, "_exist")
        failing(said, c) ==
            P(g, Check(rule.Key, said, vc.RawFieldName,
                       Cond(c, target, source, typeName), "value"))
    IN  CASE rule.Key = "const" -> failing("not match const value", "!=")
          [] rule.Key = "lt" -> failing("lt", ">=")
          [] rule.Key = "le" -> failing("le", ">")
          [] rule.Key = "gt" -> failing("gt", "<=")
          [] rule.Key = "ge" -> failing("ge", "<")
          [] rule.Key = "in" ->
               P(P(P(GenID(g, vc), Decl(exist, [e |-> "false"])),
                   [op |-> "scan", exist |-> exist, over |-> source, t |-> target,
                    ty |-> typeName]),
                 Check("in", "in", vc.RawFieldName, Cond("!flag", exist, "", ""), "value"))
          [] rule.Key = "not_in" -> failing("not_in", "member")
          [] rule.Key = "not_nil" -> g
          [] OTHER -> Fail(g, "unknown numeric annotation")

\* the source's error is returned before the check is written
numericChecked(vc, rule, s) ==
    IF s.g.err # "" THEN s ELSE R(numericCheck(vc, rule, s.local, s.g), s.local)

generateNumericValidationRule(vc, rule, source, g) ==
    numericChecked(vc, rule, numericSource(vc, rule, source, g))

\* ---- bool ----
boolSource(vc, rule, source, g) ==
    CASE rule.Key = "const" ->
           LET vt == rule.Specified
           IN  CASE vt.ValueType = "bool" -> R(g, FormatBool(vt.Bool))
                 [] vt.ValueType = "fieldref" -> R(g, GetFieldReferenceName(vt, "m."))
                 [] OTHER -> R(g, source)
      [] rule.Key = "not_nil" -> R(g, source)
      [] OTHER -> R(Fail(g, "unknown bool annotation"), source)

boolCheck(vc, rule, source, g) ==
    CASE rule.Key = "const" ->
           P(g, Check("const", "const", vc.RawFieldName,
                      Cond("!=", vc.GetNameFunc, source, ""), "value"))
      [] rule.Key = "not_nil" -> g
      [] OTHER -> Fail(g, "unknown bool annotation")

\* the source's error is returned before the check is written
boolChecked(vc, rule, s) ==
    IF s.g.err # "" THEN s ELSE R(boolCheck(vc, rule, s.local, s.g), s.local)

generateBoolValidationRule(vc, rule, source, g) ==
    boolChecked(vc, rule, boolSource(vc, rule, source, g))

\* ---- string / bytes ----
binarySource(vc, rule, source, g) ==
    LET vt == rule.Specified
        src == GenName(g, vc, "_src")
    IN  CASE rule.Key \in {"const", "prefix", "suffix", "contains", "not_contains",
                           "pattern", "min_size", "max_size"}
               /\ vt.ValueType = "func" ->
               R(generateFunction(src, vc, vt.Function, GenID(g, vc)), src)
          [] rule.Key \in {"const", "prefix", "suffix", "contains", "not_contains",
                           "pattern"} ->
               CASE vt.ValueType = "fieldref" -> R(g, GetFieldReferenceName(vt, "m."))
                 [] OTHER ->
                      IF vc.RawField.Kind = "string" \/ rule.Key = "pattern"
                      THEN R(P(GenID(g, vc), Decl(src, [e |-> "string", lit |-> vt.Binary])), src)
                      ELSE R(P(GenID(g, vc), Decl(src, [e |-> "bytes", lit |-> vt.Binary])), src)
          [] rule.Key \in {"min_size", "max_size"} ->
               CASE vt.ValueType = "fieldref" -> R(g, GetFieldReferenceName(vt, "m."))
                 [] vt.ValueType = "int" -> R(g, FormatInt(vt.Int))
                 [] OTHER -> R(g, source)
          [] rule.Key \in {"in", "not_in"} ->
               \* the error of generateSlice is not looked at
               R(Fail(generateSlice(src, vc, rule.Range, GenID(g, vc)), ""), src)
          [] rule.Key = "not_nil" -> R(g, source)
          [] OTHER -> R(Fail(g, "unknown binary annotation"), source)

binaryCheck(vc, rule, source, g) ==
    LET target == vc.GetNameFunc
        kind == vc.RawField.Kind
        exist == GenName(g, vc, "_exist")
        failing(said, c, s, carries) ==
            P(g, Check(rule.Key, said, vc.RawFieldName, Cond(c, target, s, kind), carries))
    IN  CASE rule.Key = "min_size" -> failing("min_len", "len<", source, "count")
          [] rule.Key = "max_size" -> failing("max_len", "len>", source, "count")
          [] rule.Key = "const" -> failing("not match const value", "!=", source, "value")
          [] rule.Key = "prefix" -> failing("prefix", "!prefix", source, "value")
          [] rule.Key = "suffix" -> failing("suffix", "!suffix", source, "value")
          [] rule.Key = "contains" -> failing("contains", "!contains", source, "value")
          [] rule.Key = "not_contains" -> failing("not_contains", "contains", source, "value")
          [] rule.Key = "pattern" -> failing("pattern", "!match", source, "value")
          [] rule.Key = "in" ->
               P(P(P(GenID(g, vc), Decl(exist, [e |-> "false"])),
                   [op |-> "scan", exist |-> exist, over |-> source, t |-> target,
                    ty |-> kind]),
                 Check("in", "in", vc.RawFieldName, Cond("!flag", exist, "", ""), "value"))
          [] rule.Key = "not_in" -> failing("not_in", "member", source, "value")
          [] rule.Key = "not_nil" -> g
          [] OTHER -> Fail(g, "unknown binary annotation")

\* the source's error is returned before the check is written
binaryChecked(vc, rule, s) ==
    IF s.g.err # "" THEN s ELSE R(binaryCheck(vc, rule, s.local, s.g), s.local)

generateBinaryValidationRule(vc, rule, source, g) ==
    binaryChecked(vc, rule, binarySource(vc, rule, source, g))

\* ---- message-typed field: the loop sets skip, the call follows the loop ----
generateStructLikeFieldValidationRule(vc, rule, skip, g) ==
    CASE rule.Key = "skip" ->
           IF rule.Specified.Bool
           THEN R(P(g, [op |-> "comment", field |-> vc.RawFieldName]), "skip")
           ELSE R(g, skip)
      [] rule.Key = "not_nil" -> R(g, skip)
      [] OTHER -> R(Fail(g, "unknown struct like annotation"), skip)

nestedValidateCall(vc, g) ==
    P(g, CheckWrapping("", "not valid", vc.RawFieldName,
                       Cond("validate", vc.GetNameFunc, "", "")))

\* ---- the synthetic contexts of list elements, map keys and map values ----
\* a wrong element context: an identifier scope of its own instead of the message's
ElemContextOwnIds(vc, rule, elemName) ==
    ValidateContext(elemName, elemName, elemName, rule.Inner, vc.RawField,
                    vc.PbPackage, "own", "Field")

ElemContext(vc, rule, elemName) ==
    ValidateContext(elemName, elemName, elemName, rule.Inner, vc.RawField,
                    vc.PbPackage, vc.ids, "Field")

\* the package of the synthetic file descriptor: the enum's file for enum values,
\* no FileDescriptorProto (so the empty package) otherwise
mapFilePackage(vc) ==
    IF vc.RawField.MapValue = "enum" THEN vc.RawField.EnumPackage ELSE ""

MapKeyContext(vc, rule) ==
    ValidateContext("k", "k", "k", rule.Inner,
                    Field("", vc.RawField.MapKey, FALSE, FALSE, "", "", ""),
                    mapFilePackage(vc), vc.ids, "Field")

MapValueContext(vc, rule) ==
    ValidateContext("v", "v", "v", rule.Inner,
                    Field("", vc.RawField.MapValue, FALSE, FALSE, "", "", vc.RawField.Enum),
                    mapFilePackage(vc), vc.ids, "Field")

\* ---- list ----
sizeSource(vc, rule, source, g) ==
    LET vt == rule.Specified
        src == GenName(g, vc, "_src")
    IN  CASE vt.ValueType = "int" -> R(g, FormatInt(vt.Int))
          [] vt.ValueType = "fieldref" -> R(g, GetFieldReferenceName(vt, "m."))
          [] vt.ValueType = "func" ->
               R(generateFunction(src, vc, vt.Function, GenID(g, vc)), src)
          [] OTHER -> R(g, source)

listSource(vc, rule, source, g) ==
    CASE rule.Key \in {"min_size", "max_size"} -> sizeSource(vc, rule, source, g)
      [] rule.Key = "elem" -> R(g, source)
      [] OTHER -> R(Fail(g, "unknown list annotation"), source)

listCheck(vc, rule, source, g) ==
    LET target == vc.GetNameFunc
        elemName == GenName(g, vc, "_elem")
        g1 == P(P(GenID(g, vc), For("index", "i", target)),
                Decl(elemName, [e |-> "index", a |-> target, i |-> "i"]))
    IN  CASE rule.Key = "min_size" ->
               P(g, Check("min_size", "MinLen", vc.RawFieldName,
                          Cond("len<", target, source, "list"), "value"))
          [] rule.Key = "max_size" ->
               P(g, Check("max_size", "MaxLen", vc.RawFieldName,
                          Cond("len>", target, source, "list"), "value"))
          [] rule.Key = "elem" ->
               ThenP(generateFieldValidation(ElemContext(vc, rule, elemName), TRUE, g1), End)
          [] OTHER -> Fail(g, "unknown list annotation")

\* the source's error is returned before the check is written
listChecked(vc, rule, s) ==
    IF s.g.err # "" THEN s ELSE R(listCheck(vc, rule, s.local, s.g), s.local)

generateListValidationRule(vc, rule, source, g) ==
    listChecked(vc, rule, listSource(vc, rule, source, g))

\* ---- map ----
mapSource(vc, rule, source, g) ==
    CASE rule.Key \in {"min_size", "max_size"} -> sizeSource(vc, rule, source, g)
      [] rule.Key = "no_sparse" ->
           LET vt == rule.Specified
           IN  CASE vt.ValueType = "bool" -> R(g, FormatBool(vt.Bool))
                 [] vt.ValueType = "fieldref" -> R(g, GetFieldReferenceName(vt, "m."))
                 [] OTHER -> R(g, source)
      [] rule.Key \in {"map_key", "map_value"} -> R(g, source)
      [] OTHER -> R(Fail(g, "unknown map annotation"), source)

\* getEnumFileDescriptorProto / getEnumEnumDescriptorProto: the enum of the map's
\* values is looked up by name and package in g.Files
enumOfMapValueFound(rawField) ==
    \E i \in 1..Len(PluginFiles) : \E j \in 1..Len(PluginFiles[i].Enums) :
        /\ PluginFiles[i].Enums[j].Name = rawField.Enum
        /\ PluginFiles[i].Package = rawField.EnumPackage

mapCheck(vc, rule, source, g) ==
    LET target == vc.GetNameFunc
        enumMissing == vc.RawField.MapValue = "enum" /\ ~enumOfMapValueFound(vc.RawField)
    IN  CASE rule.Key = "min_size" ->
               P(g, Check("min_size", "min_size", vc.RawFieldName,
                          Cond("len<", target, source, "map"), "value"))
          [] rule.Key = "max_size" ->
               P(g, Check("max_size", "max_size", vc.RawFieldName,
                          Cond("len>", target, source, "map"), "value"))
          [] rule.Key = "no_sparse" ->
               IF vc.RawField.MapValue # "message"
               THEN Fail(g, "no_sparse rule is only applicable for embedded message types")
               ELSE P(P(P(g, For("values", "v", target)),
                        Check("no_sparse", "no_sparse", vc.RawFieldName,
                              Cond("isnil", "v", "", ""), "value")),
                      End)
          [] rule.Key = "map_key" ->
               IF enumMissing
               THEN Fail(P(g, For("keys", "k", target)), "can not find enum defination in all file")
               ELSE ThenP(generateFieldValidation(MapKeyContext(vc, rule), TRUE,
                                                  P(g, For("keys", "k", target))), End)
          [] rule.Key = "map_value" ->
               IF enumMissing
               THEN Fail(P(g, For("values", "v", target)), "can not find enum defination in all file")
               ELSE ThenP(generateFieldValidation(MapValueContext(vc, rule), TRUE,
                                                  P(g, For("values", "v", target))), End)
          [] OTHER -> Fail(g, "unknown map annotation")

\* the source's error is returned before the check is written
mapChecked(vc, rule, s) ==
    IF s.g.err # "" THEN s ELSE R(mapCheck(vc, rule, s.local, s.g), s.local)

generateMapValidationRule(vc, rule, source, g) ==
    mapChecked(vc, rule, mapSource(vc, rule, source, g))

\* ---- message-level rules ----
generateStructLikeValidationRule(vc, rule, source, g) ==
    LET src == GenName(g, vc, "_assert")
    IN  CASE rule.Key = "assert" ->
               R(ThenP(generateFunction(src, vc, rule.Specified.Function, GenID(g, vc)),
                       Check("assert", "struct assertion", "",
                             Cond("!flag", src, "", ""), "none")), source)
          [] OTHER -> R(Fail(g, "unknown struct like annotation"), source)

\* ---- the loops ----
RuleStep(validator, vc, rule, local, g) ==
    CASE validator = "enum" -> generateEnumValidationRule(vc, rule, local, g)
      [] validator = "numeric" -> generateNumericValidationRule(vc, rule, local, g)
      [] validator = "bool" -> generateBoolValidationRule(vc, rule, local, g)
      [] validator = "binary" -> generateBinaryValidationRule(vc, rule, local, g)
      [] validator = "structLikeField" -> generateStructLikeFieldValidationRule(vc, rule, local, g)
      [] validator = "list" -> generateListValidationRule(vc, rule, local, g)
      [] validator = "map" -> generateMapValidationRule(vc, rule, local, g)
      [] validator = "structLike" -> generateStructLikeValidationRule(vc, rule, local, g)

\* a wrong loop: the rules taken last to first
RECURSIVE RulesLoopBackwards(_, _, _, _)
RulesLoopBackwards(validator, vc, i, s) ==
    IF s.g.err # "" \/ i > Len(vc.Rules) THEN s
    ELSE RulesLoopBackwards(validator, vc, i + 1,
                            RuleStep(validator, vc, vc.Rules[Len(vc.Rules) + 1 - i],
                                     s.local, s.g))

\* for _, rule := range vc.Rules { ... }, left at the first error; s is the state
\* and the loop's local variable before rule i
RulesLoop(validator, vc, i, s) ==
    IF s.g.err # "" \/ i > Len(vc.Rules) THEN s
    ELSE RulesLoop(validator, vc, i + 1,
                   RuleStep(validator, vc, vc.Rules[i], s.local, s.g))

generateEnumValidation(vc, g) == RulesLoop("enum", vc, 1, R(g, "")).g
generateNumericValidation(vc, g) == RulesLoop("numeric", vc, 1, R(g, "")).g
generateBoolValidation(vc, g) == RulesLoop("bool", vc, 1, R(g, "")).g
generateBinaryValidation(vc, g) == RulesLoop("binary", vc, 1, R(g, "")).g
generateListValidation(vc, g) == RulesLoop("list", vc, 1, R(g, "")).g
generateMapValidation(vc, g) == RulesLoop("map", vc, 1, R(g, "")).g
generateStructLikeValidation(vc, g) ==
    RulesLoop("structLike", vc, 1, R(g, "")).g

\* after the loop: the nested Validate() call, unless skip was set
nestedValidateUnlessSkipped(vc, s) ==
    IF s.g.err # "" THEN s.g
    ELSE IF s.local # "skip" THEN nestedValidateCall(vc, s.g)
    ELSE s.g

generateStructLikeFieldValidation(vc, g) ==
    nestedValidateUnlessSkipped(vc, RulesLoop("structLikeField", vc, 1, R(g, "")))

generateBaseTypeValidation(vc, g) ==
    CASE vc.RawField.Kind = "bool" -> generateBoolValidation(vc, g)
      [] vc.RawField.Kind \in NumericKinds -> generateNumericValidation(vc, g)
      [] vc.RawField.Kind \in {"string", "bytes"} -> generateBinaryValidation(vc, g)
      [] OTHER -> Fail(g, "unknown base annotation")

\* the guard of every not_nil rule with value true, ahead of the type dispatch
notNilGuard(vc) ==
    Check("not_nil", "not_nil", vc.RawFieldName,
          Cond("isnil", "m." \o vc.FieldName, "", ""), "none")

RECURSIVE notNilGuards(_, _, _)
notNilGuards(vc, i, g) ==
    IF i > Len(vc.Rules) THEN g
    ELSE LET r == vc.Rules[i]
         IN  notNilGuards(vc, i + 1,
                          IF r.Key = "not_nil" /\ r.Specified.Bool
                          THEN P(g, notNilGuard(vc)) ELSE g)

typeDispatch(vc, isInnerType, g) ==
    IF vc.RawField.IsList /\ ~isInnerType THEN generateListValidation(vc, g)
    ELSE IF vc.RawField.IsMap /\ ~isInnerType THEN generateMapValidation(vc, g)
    ELSE IF vc.RawField.Kind = "message" THEN generateStructLikeFieldValidation(vc, g)
    ELSE IF vc.RawField.Kind = "enum" THEN generateEnumValidation(vc, g)
    ELSE generateBaseTypeValidation(vc, g)

\* a wrong order: the guards written after the checks of the field's type
guardsAfterDispatch(vc, isInnerType, g) ==
    notNilGuards(vc, 1, typeDispatch(vc, isInnerType, g))

generateFieldValidation(vc, isInnerType, g) ==
    typeDispatch(vc, isInnerType, notNilGuards(vc, 1, g))

(***************************************************************************)
(* The input of one run: the schema file being compiled.  A message holds  *)
(* its message-level rules and its fields, each with its parsed rules.     *)
(***************************************************************************)
Message(name, rules, fields) == [Name |-> name, Rules |-> rules, Fields |-> fields]
FieldWithRules(field, rules) == [Field |-> field, Rules |-> rules]

\* mkMsgValidateContext: a fresh identifier scope, the context of the message-level
\* rules, then one context per field in declaration order
mkMsgValidateContext(st, pkg) ==
    <<ValidateContext("", "", "m", st.Rules, ScalarField("", "message"), pkg, "msg",
                      "StructLike")>>
    \o [i \in 1..Len(st.Fields) |->
          ValidateContext(st.Fields[i].Field.Name, st.Fields[i].Field.Name,
                          "m." \o st.Fields[i].Field.Name, st.Fields[i].Rules,
                          st.Fields[i].Field, pkg, "msg", "Field")]

FreshIds == [scope \in IdScopes |-> 0]

VARIABLES
    file,       \* g.PbFile: the schema file being compiled (read-only)
    pc,         \* where Generate is
    mi,         \* the index of the message generateValidate is at
    vi,         \* the index of the validation context of that message
    g,          \* out (the generated file), ids, usedFuncs, err
    imports,    \* import paths added by generateFuncsImport
    steps,      \* the emission steps run so far, in order
    ret,        \* what Generate returned ("" is nil, "-" not yet)
    run         \* the last Validate call on the generated code

vars == <<file, pc, mi, vi, g, imports, steps, ret, run>>

NoRun == [msg |-> 0]

vcs == mkMsgValidateContext(file.Messages[mi], file.Package)

generateHeader ==
    /\ pc = "header"
    /\ g' = P(g, Stmt("header"))
    /\ steps' = Append(steps, "generateHeader")
    /\ pc' = "package"
    /\ UNCHANGED <<file, mi, vi, imports, ret, run>>

generatePackage ==
    /\ pc = "package"
    /\ g' = P(g, [op |-> "package", name |-> file.Package])
    /\ steps' = Append(steps, "generatePackage")
    /\ pc' = "guard"
    /\ UNCHANGED <<file, mi, vi, imports, ret, run>>

generateImportAndGuard ==
    /\ pc = "guard"
    /\ g' = P(g, Stmt("unused protection"))
    /\ steps' = Append(steps, "generateImportAndGuard")
    /\ pc' = IF Len(file.Messages) = 0 THEN "funcs" ELSE "validate"
    /\ mi' = 1
    /\ UNCHANGED <<file, vi, imports, ret, run>>

\* a wrong loop head: the procedures named after the messages taken last to first
generateValidateLastFirst ==
    /\ pc = "validate"
    /\ mi <= Len(file.Messages)
    /\ g' = [P(g, [op |-> "func", name |-> file.Messages[Len(file.Messages) + 1 - mi].Name])
                EXCEPT !.ids = FreshIds]
    /\ steps' = Append(steps, "generateValidate")
    /\ vi' = 1
    /\ pc' = "contexts"
    /\ UNCHANGED <<file, mi, imports, ret, run>>

\* generateValidate, the head of the loop over g.PbFile.Messages
generateValidateMessage ==
    /\ pc = "validate"
    /\ mi <= Len(file.Messages)
    /\ g' = [P(g, [op |-> "func", name |-> file.Messages[mi].Name])
                EXCEPT !.ids = FreshIds]
    /\ steps' = Append(steps, "generateValidate")
    /\ vi' = 1
    /\ pc' = "contexts"
    /\ UNCHANGED <<file, mi, imports, ret, run>>

\* the body of the loop over the contexts of the message: a context without rules
\* is passed over, the others go to the validator of their type
generateValidateBody(vc, g0) ==
    IF Len(vc.Rules) = 0 THEN g0
    ELSE IF vc.ValidationType = "StructLike" THEN generateStructLikeValidation(vc, g0)
    ELSE generateFieldValidation(vc, FALSE, g0)

generateValidateContext ==
    /\ pc = "contexts"
    /\ vi <= Len(vcs)
    /\ g' = generateValidateBody(vcs[vi], g)
    /\ IF g'.err # "" THEN pc' = "funcs" /\ vi' = vi
       ELSE pc' = "contexts" /\ vi' = vi + 1
    /\ steps' = Append(steps, "generateValidate")
    /\ UNCHANGED <<file, mi, imports, ret, run>>

\* the end of a message's procedure; after the last one generateValidate returns nil
generateValidateReturn ==
    /\ pc = "contexts"
    /\ vi > Len(vcs)
    /\ g' = P(P(P(g, Stmt("return nil")), Stmt("close")), Blank)
    /\ steps' = Append(steps, "generateValidate")
    /\ mi' = mi + 1
    /\ pc' = IF mi = Len(file.Messages) THEN "funcs" ELSE "validate"
    /\ UNCHANGED <<file, vi, imports, ret, run>>

\* generateFuncsImport: called by Generate whatever generateValidate returned
generateFuncsImport ==
    /\ pc = "funcs"
    /\ imports' = UNION {GetFunction(f).Import : f \in g.usedFuncs}
    /\ steps' = Append(steps, "generateFuncsImport")
    /\ pc' = "return"
    /\ UNCHANGED <<file, mi, vi, g, ret, run>>

GenerateReturn ==
    /\ pc = "return"
    /\ ret' = g.err
    /\ pc' = "done"
    /\ UNCHANGED <<file, mi, vi, g, imports, steps, run>>

(***************************************************************************)
(* The generated code at validation time.  Values are tagged; a message    *)
(* value says whether the pointer is nil and what its own Validate()       *)
(* returns.                                                                *)
(***************************************************************************)
VInt(n) == [t |-> "int", n |-> n]
VBool(b) == [t |-> "bool", b |-> b]
VStr(chars) == [t |-> "str", s |-> chars]
VMsg(isNil, res) == [t |-> "msg", nil |-> isNil, res |-> res]
VList(l) == [t |-> "list", l |-> l]
VMap(entries) == [t |-> "map", l |-> entries]
VNone == [t |-> "none"]

AsInt(v) == IF v.t = "int" THEN v.n ELSE 0
AsSeq(v) == IF v.t \in {"list", "map"} THEN v.l ELSE IF v.t = "str" THEN v.s ELSE <<>>

LitInts == (0 - 1)..3
Strings == {<<>>, <<"a">>, <<"a", "b">>, <<"b">>}

\* what a literal operand text denotes
Literals ==
    {[text |-> FormatInt(n), v |-> VInt(n)] : n \in LitInts}
    \cup {[text |-> "int64(" \o ToString(n) \o ")", v |-> VInt(n)] : n \in LitInts}
    \cup {[text |-> "float64(" \o ToString(n) \o ".000000)", v |-> VInt(n)] : n \in LitInts}
    \cup {[text |-> FormatBool(b), v |-> VBool(b)] : b \in BOOLEAN}
    \cup {[text |-> Quote(str), v |-> VStr(str)] : str \in Strings}

LiteralTexts == {l.text : l \in Literals}
LiteralValue(text) == (CHOOSE l \in Literals : l.text = text).v

\* an operand text is a literal, a member of m, or a local name
Operand(text, fieldNames) ==
    IF text \in LiteralTexts THEN [k |-> "lit", v |-> LiteralValue(text)]
    ELSE IF \E n \in fieldNames : text = "m." \o n
    THEN [k |-> "field", name |-> CHOOSE n \in fieldNames : text = "m." \o n]
    ELSE IF text = "m" THEN [k |-> "self"]
    ELSE [k |-> "var", name |-> text]

\* the operand texts a statement reads
ExprReads(expr) ==
    CASE expr.e = "len" -> {expr.a}
      [] expr.e = "sprintf" -> {expr.args[i] : i \in 1..Len(expr.args)}
      [] expr.e \in {"equal", "mod", "add"} -> {expr.a, expr.b}
      [] expr.e = "index" -> {expr.a, expr.i}
      [] expr.e = "slice" -> {expr.elems[i] : i \in 1..Len(expr.elems)}
      [] OTHER -> {}

CondReads(cond) ==
    IF cond.c \in {"isnil", "!flag", "validate", "undefined"} THEN {cond.t}
    ELSE {cond.t, cond.s}

Reads(stmt) ==
    CASE stmt.op = "decl" -> ExprReads(stmt.expr)
      [] stmt.op = "check" -> CondReads(stmt.cond)
      [] stmt.op = "scan" -> {stmt.exist, stmt.over, stmt.t}
      [] stmt.op = "for" -> {stmt.over}
      [] OTHER -> {}

\* a slice element is goType(source): the source inside the conversion
SliceSources(fieldNames) ==
    LiteralTexts \cup {"m." \o n : n \in fieldNames}

Resolves(text, scope, fieldNames) ==
    LET o == Operand(text, fieldNames)
    IN  \/ o.k # "var"
        \/ o.name \in scope
        \/ \E ty \in {fieldGoType(k) : k \in NumericKinds \cup {"string", "bytes"}} :
              \E src \in SliceSources(fieldNames) : text = ty \o "(" \o src \o ")"

\* The statements s[i..] compile: every name read is a member of m or was declared
\* earlier in the procedure, in an enclosing block.  scopes is the stack of the
\* names declared in the open blocks.
RECURSIVE Declared(_, _, _, _)
Declared(stmts, i, scopes, fieldNames) ==
    IF i > Len(stmts) THEN TRUE
    ELSE LET stmt == stmts[i]
             scope == UNION {scopes[k] : k \in 1..Len(scopes)}
             top == Len(scopes)
         IN  /\ \A text \in Reads(stmt) : Resolves(text, scope, fieldNames)
             /\ CASE stmt.op = "decl" ->
                       Declared(stmts, i + 1,
                                [scopes EXCEPT ![top] = @ \cup {stmt.name}], fieldNames)
                  [] stmt.op = "for" ->
                       Declared(stmts, i + 1, Append(scopes, {stmt.var}), fieldNames)
                  [] stmt.op = "end" ->
                       Declared(stmts, i + 1, SubSeq(scopes, 1, top - 1), fieldNames)
                  [] stmt.op = "func" ->
                       Declared(stmts, i + 1, <<{}>>, fieldNames)
                  [] OTHER -> Declared(stmts, i + 1, scopes, fieldNames)

\* the procedures of the generated file: the statements from each func to its close
RECURSIVE Positions(_, _, _)
Positions(stmts, o, i) ==
    IF i > Len(stmts) THEN <<>>
    ELSE (IF stmts[i].op = o THEN <<i>> ELSE <<>>) \o Positions(stmts, o, i + 1)

Proc(stmts, k) ==
    LET from == Positions(stmts, "func", 1)[k]
        closes == Positions(stmts, "close", 1)
        to == IF k <= Len(closes) THEN closes[k] ELSE Len(stmts)
    IN  SubSeq(stmts, from, to)

FieldNames(st) == {st.Fields[i].Field.Name : i \in 1..Len(st.Fields)}

\* the generated file compiles
Compiles(stmts, messages) ==
    \A k \in 1..Len(messages) :
        Declared(Proc(stmts, k), 1, <<{}>>, FieldNames(messages[k]))

\* the enum constant a rendered symbol denotes in the package being generated
GoPackageOf(pkg) ==
    LET fs == {i \in 1..Len(PluginFiles) : PluginFiles[i].Package = pkg}
    IN  IF fs = {} THEN "" ELSE PluginFiles[CHOOSE i \in fs : TRUE].GoPackageName

EnumConstants ==
    {[pkg |-> PluginFiles[i].Package, gopkg |-> PluginFiles[i].GoPackageName,
      enum |-> PluginFiles[i].Enums[j].Name, value |-> PluginFiles[i].Enums[j].Values[k]] :
        <<i, j, k>> \in {t \in (1..Len(PluginFiles)) \X (1..2) \X (1..2) :
                            /\ t[2] <= Len(PluginFiles[t[1]].Enums)
                            /\ t[3] <= Len(PluginFiles[t[1]].Enums[t[2]].Values)}}

Denoted(sym, curGoPackage) ==
    {c \in EnumConstants :
        \/ sym = c.gopkg \o "." \o c.value.GoName
        \/ c.gopkg = curGoPackage /\ sym = c.value.GoName}

DefinedNumbers(enumNameMap, curGoPackage) ==
    {c.value.Number : c \in {d \in EnumConstants :
        d.gopkg = curGoPackage /\ d.enum \o "_name" = enumNameMap}}

IsPrefix(a, b) == Len(a) <= Len(b) /\ SubSeq(b, 1, Len(a)) = a
IsSuffix(a, b) == Len(a) <= Len(b) /\ SubSeq(b, Len(b) - Len(a) + 1, Len(b)) = a
Contains(b, a) == \E i \in 0..(Len(b) - Len(a)) : SubSeq(b, i + 1, i + Len(a)) = a

\* ctx: inst (the message), oracle (what a custom template computes), gopkg
Value(text, env, ctx) ==
    LET o == Operand(text, DOMAIN ctx.inst)
    IN  CASE o.k = "lit" -> o.v
          [] o.k = "field" -> ctx.inst[o.name]
          [] o.k = "var" /\ o.name \in DOMAIN env -> env[o.name]
          [] OTHER -> VNone

SliceElementValue(text, env, ctx) ==
    LET srcs == {src \in SliceSources(DOMAIN ctx.inst) :
                    \E ty \in {fieldGoType(k) : k \in NumericKinds \cup {"string", "bytes"}} :
                        text = ty \o "(" \o src \o ")"}
    IN  IF srcs = {} THEN VNone ELSE Value(CHOOSE src \in srcs : TRUE, env, ctx)

EvalExpr(expr, env, ctx) ==
    CASE expr.e = "len" -> VInt(Len(AsSeq(Value(expr.a, env, ctx))))
      [] expr.e = "sprintf" -> VStr(<<"?">>)
      [] expr.e = "equal" -> VBool(Value(expr.a, env, ctx) = Value(expr.b, env, ctx))
      [] expr.e = "mod" ->
           LET b == AsInt(Value(expr.b, env, ctx))
           IN  VInt(IF b > 0 THEN AsInt(Value(expr.a, env, ctx)) % b ELSE 0)
      [] expr.e = "add" ->
           VInt(AsInt(Value(expr.a, env, ctx)) + AsInt(Value(expr.b, env, ctx)))
      [] expr.e = "now" -> VInt(3)
      [] expr.e = "template" -> ctx.oracle
      [] expr.e = "symbol" ->
           LET cs == Denoted(expr.sym, ctx.gopkg)
           IN  IF cs = {} THEN VNone ELSE VInt((CHOOSE c \in cs : TRUE).value.Number)
      [] expr.e \in {"string", "bytes"} -> VStr(expr.lit)
      [] expr.e = "false" -> VBool(FALSE)
      [] expr.e = "index" ->
           AsSeq(Value(expr.a, env, ctx))[AsInt(Value(expr.i, env, ctx)) + 1]
      [] expr.e = "slice" ->
           VList([i \in 1..Len(expr.elems) |-> SliceElementValue(expr.elems[i], env, ctx)])

\* the condition of an emitted if: TRUE when the check returns its error
CondFails(cond, env, ctx) ==
    LET t == Value(cond.t, env, ctx)
        s == Value(cond.s, env, ctx)
    IN  CASE cond.c = "isnil" -> t.t = "msg" /\ t.nil
          [] cond.c = "!=" -> t # s
          [] cond.c = ">=" -> AsInt(t) >= AsInt(s)
          [] cond.c = ">" -> AsInt(t) > AsInt(s)
          [] cond.c = "<=" -> AsInt(t) <= AsInt(s)
          [] cond.c = "<" -> AsInt(t) < AsInt(s)
          [] cond.c = "undefined" -> AsInt(t) \notin DefinedNumbers(cond.s, ctx.gopkg)
          [] cond.c = "len<" -> Len(AsSeq(t)) < AsInt(s)
          [] cond.c = "len>" -> Len(AsSeq(t)) > AsInt(s)
          [] cond.c = "!prefix" -> ~IsPrefix(AsSeq(s), AsSeq(t))
          [] cond.c = "!suffix" -> ~IsSuffix(AsSeq(s), AsSeq(t))
          [] cond.c = "!contains" -> ~Contains(AsSeq(t), AsSeq(s))
          [] cond.c = "contains" -> Contains(AsSeq(t), AsSeq(s))
          [] cond.c = "!match" -> ~Contains(AsSeq(t), AsSeq(s))
          [] cond.c = "!flag" -> ~(t.t = "bool" /\ t.b)
          [] cond.c = "member" -> \E i \in 1..Len(AsSeq(s)) : AsSeq(s)[i] = t
          [] cond.c = "validate" -> t.t = "msg" /\ t.res = "err"

NoError ==
    [key |-> "", said |-> "", field |-> "", carries |-> "none", val |-> VNone,
     cause |-> <<>>]

\* the error a nested message's own Validate returns
NestedError ==
    [key |-> "nested", said |-> "nested", field |-> "inner", carries |-> "value",
     val |-> VNone, cause |-> <<>>]

\* fmt.Errorf of a failing check: what the message names and carries; %w keeps the cause
ErrorOf(stmt, env, ctx) ==
    [key |-> stmt.key, said |-> stmt.said, field |-> stmt.field, carries |-> stmt.carries,
     val |-> CASE stmt.carries = "value" -> Value(stmt.cond.t, env, ctx)
               [] stmt.carries = "count" -> VInt(Len(AsSeq(Value(stmt.cond.t, env, ctx))))
               [] OTHER -> VNone,
     cause |-> IF stmt.wraps THEN <<NestedError>> ELSE <<>>]

RECURSIVE MatchEnd(_, _, _)
MatchEnd(stmts, i, depth) ==
    IF i > Len(stmts) THEN i
    ELSE CASE stmts[i].op = "for" -> MatchEnd(stmts, i + 1, depth + 1)
           [] stmts[i].op = "end" ->
                IF depth = 0 THEN i ELSE MatchEnd(stmts, i + 1, depth - 1)
           [] OTHER -> MatchEnd(stmts, i + 1, depth)

\* Running stmts[i..hi].  st: env (the local names), ev (the checks evaluated so far,
\* each with its position, the loop iteration it ran in and whether it failed),
\* iter (the iteration of the enclosing loop, -1 outside loops).
RECURSIVE Exec(_, _, _, _, _)
RECURSIVE Iterate(_, _, _, _, _, _)

\* a wrong loop: every iteration sees the first entry
BindingFirstEntry(stmt, items, n) ==
    CASE stmt.kind = "index" -> stmt.var :> VInt(n - 1)
      [] stmt.kind = "keys" -> stmt.var :> items[1].k
      [] stmt.kind = "values" -> stmt.var :> items[1].v

Binding(stmt, items, n) ==
    CASE stmt.kind = "index" -> stmt.var :> VInt(n - 1)
      [] stmt.kind = "keys" -> stmt.var :> items[n].k
      [] stmt.kind = "values" -> stmt.var :> items[n].v

Iterate(stmts, i, j, n, st, ctx) ==
    LET items == AsSeq(Value(stmts[i].over, st.env, ctx))
        body == Exec(stmts, i + 1, j - 1,
                     [env |-> Binding(stmts[i], items, n) @@ st.env, ev |-> st.ev,
                      iter |-> n - 1], ctx)
    IN  IF n > Len(items) THEN [res |-> "ok", err |-> NoError, st |-> st]
        ELSE IF body.res # "ok" THEN body
        ELSE Iterate(stmts, i, j, n + 1, [st EXCEPT !.ev = body.st.ev], ctx)

Exec(stmts, i, hi, st, ctx) ==
    IF i > hi THEN [res |-> "ok", err |-> NoError, st |-> st]
    ELSE LET stmt == stmts[i]
             j == MatchEnd(stmts, i + 1, 0)
             loop == Iterate(stmts, i, j, 1, st, ctx)
             failed == CondFails(stmt.cond, st.env, ctx)
             seen == [st EXCEPT !.ev = Append(@, [at |-> i, iter |-> st.iter,
                                                   failed |-> failed])]
         IN  CASE stmt.op = "decl" ->
                    Exec(stmts, i + 1, hi,
                         [st EXCEPT !.env = (stmt.name :> EvalExpr(stmt.expr, st.env, ctx)) @@ @],
                         ctx)
               [] stmt.op = "scan" ->
                    Exec(stmts, i + 1, hi,
                         [st EXCEPT !.env =
                             (stmt.exist :> VBool(\E n \in 1..Len(AsSeq(Value(stmt.over, st.env, ctx))) :
                                 AsSeq(Value(stmt.over, st.env, ctx))[n] = Value(stmt.t, st.env, ctx)))
                             @@ @],
                         ctx)
               [] stmt.op = "check" ->
                    IF failed
                    THEN [res |-> "err", err |-> ErrorOf(stmt, st.env, ctx), st |-> seen]
                    ELSE Exec(stmts, i + 1, hi, seen, ctx)
               [] stmt.op = "for" ->
                    IF loop.res # "ok" THEN loop
                    ELSE Exec(stmts, j + 1, hi, loop.st, ctx)
               [] stmt.op = "return nil" -> [res |-> "ok", err |-> NoError, st |-> st]
               [] OTHER -> Exec(stmts, i + 1, hi, st, ctx)

\* m.Validate() of message k of the file on the instance inst
RunValidate(stmts, messages, k, inst, oracle, pkg) ==
    LET proc == Proc(stmts, k)
        r == Exec(proc, 1, Len(proc), [env |-> <<>>, ev |-> <<>>, iter |-> 0 - 1],
                  [inst |-> inst, oracle |-> oracle, gopkg |-> GoPackageOf(pkg)])
    IN  IF ~Compiles(stmts, messages)
        THEN [msg |-> k, inst |-> inst, res |-> "invalid", err |-> NoError, ev |-> <<>>]
        ELSE [msg |-> k, inst |-> inst, res |-> r.res, err |-> r.err, ev |-> r.st.ev]

(***************************************************************************)
(* The inputs: the schema files a run may be given, and the message        *)
(* instances a generated procedure may be called on.                       *)
(***************************************************************************)
SeqsUpTo(S, n) == UNION {[1..k -> S] : k \in 0..n}

\* rule lists of at most n rules, the inner rules of composite rules counted
RECURSIVE RuleSeqs(_, _, _)
RuleSeqs(flat, inners, n) ==
    IF n = 0 THEN {<<>>}
    ELSE {<<>>}
         \cup {<<r>> \o rest : r \in flat, rest \in RuleSeqs(flat, inners, n - 1)}
         \cup UNION {UNION {{<<InnerRule(key, inner)>> \o rest :
                                inner \in SeqsUpTo(inners[key], w),
                                rest \in RuleSeqs(flat, inners, n - 1 - w)} :
                            w \in 0..(n - 1)} : key \in DOMAIN inners}

NoInners == [key \in {} |-> {}]

\* the operands a rule may carry
Functions ==
    {FuncV("now_unix_nano", <<>>),
     FuncV("len", <<FieldRefV("F")>>),
     FuncV("sprintf", <<BinaryV(<<"a">>), FieldRefV("N"), IntV(1)>>),
     FuncV("add", <<FieldRefV("N"), IntV(1)>>),
     FuncV("equal", <<FieldRefV("N"), IntV(1)>>),
     FuncV("mod", <<DoubleV(2), FuncV("now_unix_nano", <<>>)>>),
     FuncV("add", <<IntV(1)>>),
     FuncV("equal", <<BoolV(TRUE), IntV(1)>>),
     FuncV("custom", <<>>), FuncV("plain", <<>>), FuncV("broken", <<>>),
     FuncV("unknown", <<>>),
     FuncV("add", <<FuncV("unknown", <<>>), IntV(1)>>),
     FuncV("equal", <<IntV(1), FuncV("add", <<FuncV("unknown", <<>>), IntV(1)>>)>>),
     FuncV("add", <<FuncV("broken", <<>>), FuncV("custom", <<>>)>>)}

Operands ==
    {IntV(1), DoubleV(1), BoolV(TRUE), BoolV(FALSE), BinaryV(<<"a">>), FieldRefV("N")}
    \cup Functions

Ranges ==
    {<<>>, <<IntV(0), IntV(1)>>, <<BinaryV(<<"a">>), BinaryV(<<"a", "b">>)>>,
     <<FieldRefV("N"), IntV(1)>>,
     <<IntV(1), IntV(0), IntV(1)>>, <<BinaryV(<<"a", "b">>), BinaryV(<<"a">>), BinaryV(<<"a">>)>>}

InnerKeys == {"elem", "map_key", "map_value"}
RangeKeys == {"in", "not_in"}

\* every rule kind with every operand: one rule
AnyRule ==
    {SpecifiedRule(key, v) : key \in RuleKeys \ (InnerKeys \cup RangeKeys), v \in Operands}
    \cup {RangeRule(key, vs) : key \in RangeKeys, vs \in Ranges}
    \cup {InnerRule(key, inner) : key \in InnerKeys,
            inner \in {<<>>, <<SpecifiedRule("ge", IntV(1))>>,
                       <<SpecifiedRule("min_size", IntV(1))>>,
                       <<SpecifiedRule("not_nil", BoolV(TRUE))>>,
                       <<SpecifiedRule("skip", BoolV(TRUE))>>,
                       <<SpecifiedRule("const", FuncV("unknown", <<>>))>>,
                       <<SpecifiedRule("pattern", IntV(1))>>}}

\* the subjects: one field of each kind the generator dispatches on
Subjects ==
    {ScalarField("F", "bool"), ScalarField("F", "int32"), ScalarField("F", "double"),
     ScalarField("F", "string"), ScalarField("F", "bytes"), EnumField("F", "E"),
     ScalarField("F", "message"), ScalarField("F", "group"),
     ListField("F", "int32"), ListField("F", "message"),
     MapField("F", "string", "int32"), MapField("F", "string", "message")}

Reference == FieldWithRules(ScalarField("N", "int32"), <<>>)

SingleFieldFile(pkg, field, rules) ==
    [Package |-> pkg,
     Messages |-> <<Message("M1", <<>>, <<Reference, FieldWithRules(field, rules)>>)>>]

\* (1) one field, one rule: every kind with every rule
MatrixFiles == {SingleFieldFile("p", f, <<r>>) : f \in Subjects, r \in AnyRule}

\* (2) one message carrying message-level rules
Assertions == {SpecifiedRule("assert", f) : f \in Functions}

StructLikeFiles ==
    {[Package |-> "p", Messages |-> <<Message("M1", rules, <<Reference>>)>>] :
        rules \in (SeqsUpTo(Assertions \cup {SpecifiedRule("skip", BoolV(TRUE))}, 1)
                   \cup SeqsUpTo({SpecifiedRule("assert", FuncV("equal", <<FieldRefV("N"), IntV(1)>>)),
                                  SpecifiedRule("assert", FuncV("custom", <<>>))}, MaxRules))
                  \ {<<>>}}

\* (3) one field with a list of rules that its kind accepts (bar a few), to see
\* rules interact
NotNil == SpecifiedRule("not_nil", BoolV(TRUE))

Alphabet(field) ==
    CASE field.IsList /\ field.Kind = "int32" ->
           {SpecifiedRule("min_size", IntV(1)), SpecifiedRule("max_size", IntV(1)),
            SpecifiedRule("max_size", BoolV(TRUE))}
      [] field.IsList -> {SpecifiedRule("min_size", IntV(1))}
      [] field.IsMap /\ field.MapValue = "message" ->
           {SpecifiedRule("no_sparse", BoolV(TRUE)), SpecifiedRule("no_sparse", BoolV(FALSE))}
      [] field.IsMap ->
           {SpecifiedRule("min_size", IntV(1)), SpecifiedRule("max_size", FuncV("len", <<FieldRefV("F")>>))}
      [] field.Kind = "bool" ->
           {SpecifiedRule("const", BoolV(TRUE)), SpecifiedRule("const", BoolV(FALSE)),
            SpecifiedRule("const", IntV(1)), NotNil}
      [] field.Kind = "int32" ->
           {SpecifiedRule("ge", IntV(1)), SpecifiedRule("le", IntV(1)),
            SpecifiedRule("const", FuncV("add", <<FieldRefV("N"), IntV(1)>>)),
            RangeRule("in", <<IntV(0), IntV(1)>>), RangeRule("not_in", <<IntV(1)>>), NotNil}
      [] field.Kind \in {"string", "bytes"} ->
           {SpecifiedRule("min_size", IntV(1)), SpecifiedRule("max_size", IntV(1)),
            SpecifiedRule("max_size", DoubleV(1)),
            SpecifiedRule("prefix", BinaryV(<<"a">>)), RangeRule("in", <<BinaryV(<<"a">>)>>),
            RangeRule("not_in", <<>>), NotNil}
      [] field.Kind = "enum" ->
           {SpecifiedRule("const", BinaryV(<<"E", ".", "V">>)),
            SpecifiedRule("const", BinaryV(<<"q", ".", "E", ".", "V">>)),
            SpecifiedRule("defined_only", BoolV(TRUE)),
            SpecifiedRule("defined_only", BoolV(FALSE)), NotNil}
      [] field.Kind = "message" ->
           {NotNil, SpecifiedRule("not_nil", BoolV(FALSE)), SpecifiedRule("skip", BoolV(TRUE)),
            SpecifiedRule("skip", BoolV(FALSE))}
      [] OTHER -> {}

Inners(field) ==
    CASE field.IsList /\ field.Kind = "int32" ->
           [key \in {"elem"} |-> {SpecifiedRule("ge", IntV(1)), SpecifiedRule("le", IntV(1)),
                                  RangeRule("in", <<IntV(0), IntV(1)>>)}]
      [] field.IsList ->
           [key \in {"elem"} |-> {NotNil, SpecifiedRule("skip", BoolV(TRUE)),
                                  SpecifiedRule("skip", BoolV(FALSE))}]
      [] field.IsMap /\ field.MapValue = "message" ->
           [key \in {"map_key", "map_value"} |->
               IF key = "map_key" THEN {SpecifiedRule("min_size", IntV(1))}
               ELSE {NotNil, SpecifiedRule("skip", BoolV(FALSE))}]
      [] field.IsMap ->
           [key \in {"map_key", "map_value"} |->
               IF key = "map_key"
               THEN {SpecifiedRule("min_size", IntV(1)), SpecifiedRule("prefix", BinaryV(<<"a">>))}
               ELSE {SpecifiedRule("ge", IntV(1)), RangeRule("in", <<IntV(0), IntV(1)>>)}]
      [] OTHER -> NoInners

RuleListFiles ==
    UNION {{SingleFieldFile("p", f, rules) :
               rules \in RuleSeqs(Alphabet(f), Inners(f), MaxRules) \ {<<>>}} :
           f \in Subjects}

\* (3b) a list or a map whose own rule and whose inner rule both take a temporary
\* name: one rule more than above, over a small alphabet
NestedSubjects == {ListField("F", "int32"), MapField("F", "string", "int32")}

NestedAlphabet == {SpecifiedRule("min_size", FuncV("len", <<FieldRefV("F")>>))}

NestedInners(field) ==
    IF field.IsList THEN [key \in {"elem"} |-> {RangeRule("in", <<IntV(0), IntV(1)>>)}]
    ELSE [key \in {"map_key", "map_value"} |->
             IF key = "map_key" THEN {RangeRule("in", <<BinaryV(<<"a">>)>>)}
             ELSE {RangeRule("in", <<IntV(0), IntV(1)>>)}]

NestedFiles ==
    UNION {{SingleFieldFile("p", f, rules) :
               rules \in {rs \in RuleSeqs(NestedAlphabet, NestedInners(f), MaxRules + 1) :
                             Len(rs) = 2 /\ \E i \in 1..2 : rs[i].Inner # <<>>}} :
           f \in NestedSubjects}

\* (4) an enum field with a const rule: identifiers of up to MaxSegs segments,
\* compiled in a package that has the enum, has another one, or has none
Segments == {<<>>, <<"p">>, <<"q">>, <<"E">>, <<"V">>, <<"X">>}

RECURSIVE JoinSegments(_)
JoinSegments(segs) ==
    IF Len(segs) = 1 THEN segs[1]
    ELSE segs[1] \o <<".">> \o JoinSegments(Tail(segs))

Identifiers ==
    {JoinSegments(segs) : segs \in SeqsUpTo(Segments, MaxSegs) \ {<<>>}}

EnumConstFiles ==
    {SingleFieldFile(pkg, EnumField("F", "E"), <<SpecifiedRule("const", BinaryV(id))>>) :
        pkg \in {"p", "q", "r"}, id \in Identifiers}

\* (5) several messages and fields: at most MaxMsgs messages holding at most
\* MaxFields fields with rules between them
CoreRules ==
    {<<SpecifiedRule("ge", IntV(1))>>, <<RangeRule("in", <<IntV(0), IntV(1)>>)>>,
     <<SpecifiedRule("le", FuncV("custom", <<>>)), SpecifiedRule("lt", IntV(2))>>}

FieldName(i) == "F" \o ToString(i)
MessageName(i) == "M" \o ToString(i)

\* the lists of n fields
FieldLists(n) ==
    {[i \in 1..n |-> FieldWithRules(ScalarField(FieldName(i), "int32"), rules[i])] :
        rules \in [1..n -> CoreRules]}

\* the ways to give at most n fields to k messages
RECURSIVE Shares(_, _)
Shares(k, n) ==
    IF k = 0 THEN {<<>>}
    ELSE UNION {{<<a>> \o rest : rest \in Shares(k - 1, n - a)} : a \in 0..n}

MultiFiles ==
    UNION {UNION {{[Package |-> "p",
                    Messages |-> [i \in 1..k |->
                        Message(MessageName(i), <<>>, <<Reference>> \o fields[i])]] :
                      fields \in {fs \in [1..k -> UNION {FieldLists(a) : a \in 0..MaxFields}] :
                                     \A i \in 1..k : Len(fs[i]) = share[i]}} :
                  share \in Shares(k, MaxFields)} :
           k \in 0..MaxMsgs}

Files ==
    MatrixFiles \cup StructLikeFiles \cup RuleListFiles \cup NestedFiles
    \cup EnumConstFiles \cup MultiFiles

\* ---- message instances ----
ScalarValues(kind) ==
    CASE kind \in NumericKinds -> {VInt(n) : n \in 0..2}
      [] kind = "bool" -> {VBool(b) : b \in BOOLEAN}
      [] kind \in {"string", "bytes"} -> {VStr(str) : str \in {<<>>, <<"a">>, <<"b", "a">>}}
      [] kind = "enum" -> {VInt(0), VInt(1), VInt(9)}
      [] OTHER -> {VMsg(TRUE, "ok"), VMsg(FALSE, "ok"), VMsg(FALSE, "err")}

MapKeys(kind) == IF kind = "string" THEN {VStr(<<>>), VStr(<<"a">>)} ELSE {VInt(0), VInt(1)}

FieldValues(field) ==
    IF field.IsList THEN {VList(l) : l \in SeqsUpTo(ScalarValues(field.Kind), MaxElems)}
    ELSE IF field.IsMap
    THEN {VMap(l) : l \in {es \in SeqsUpTo([k : MapKeys(field.MapKey),
                                            v : ScalarValues(field.MapValue)], MaxElems) :
                              \A i, j \in 1..Len(es) : i # j => es[i].k # es[j].k}}
    ELSE ScalarValues(field.Kind)

RECURSIVE InstancesOf(_)
InstancesOf(fields) ==
    IF fields = <<>> THEN {<<>>}
    ELSE {(Head(fields).Field.Name :> v) @@ rest :
            v \in FieldValues(Head(fields).Field), rest \in InstancesOf(Tail(fields))}

Instances(st) == InstancesOf(st.Fields)

TemplateResults == {VBool(TRUE), VBool(FALSE), VInt(1)}

UsesTemplate(stmts) ==
    \E i \in 1..Len(stmts) : stmts[i].op = "decl" /\ stmts[i].expr.e = "template"

(***************************************************************************)
(* The specification                                                       *)
(***************************************************************************)
Init ==
    /\ file \in Files
    /\ pc = "header"
    /\ mi = 0
    /\ vi = 0
    /\ g = [out |-> <<>>, ids |-> FreshIds, usedFuncs |-> {}, err |-> ""]
    /\ imports = {}
    /\ steps = <<>>
    /\ ret = "-"
    /\ run = NoRun

\* m.Validate() of the generated code, once Generate has returned nil
Validate ==
    /\ pc = "done"
    /\ ret = ""
    /\ run = NoRun
    /\ \E k \in 1..Len(file.Messages) :
         \E inst \in Instances(file.Messages[k]) :
           \E oracle \in IF UsesTemplate(g.out) THEN TemplateResults ELSE {VNone} :
             run' = RunValidate(g.out, file.Messages, k, inst, oracle, file.Package)
    /\ UNCHANGED <<file, pc, mi, vi, g, imports, steps, ret>>

Next ==
    \/ generateHeader
    \/ generatePackage
    \/ generateImportAndGuard
    \/ generateValidateMessage
    \/ generateValidateContext
    \/ generateValidateReturn
    \/ generateFuncsImport
    \/ GenerateReturn
    \/ Validate

Spec == Init /\ [][Next]_vars

TypeOK ==
    /\ pc \in {"header", "package", "guard", "validate", "contexts", "funcs", "return", "done"}
    /\ g.err = "" \/ pc \in {"funcs", "return", "done"}

(***************************************************************************)
(* What the properties below read of a state: the procedures emitted so    *)
(* far, the rules they were compiled from, and the last run of one.        *)
(***************************************************************************)
NumProcs == Len(Positions(g.out, "func", 1))
ProcOf(k) == Proc(g.out, k)
FieldsOf(k) == file.Messages[k].Fields

\* the checks of the rules of the field called name, in emission order
DirectChecks(k, name) ==
    SelectSeq(ProcOf(k), LAMBDA stmt : stmt.op = "check" /\ stmt.field = name /\ ~stmt.wraps)

KeysOf(checks) == [n \in 1..Len(checks) |-> checks[n].key]
RuleKeysOf(rules) == [n \in 1..Len(rules) |-> rules[n].Key]

RECURSIVE IsSubseq(_, _)
IsSubseq(a, b) ==
    IF a = <<>> THEN TRUE
    ELSE IF b = <<>> THEN FALSE
    ELSE IF Head(a) = Head(b) THEN IsSubseq(Tail(a), Tail(b))
    ELSE IsSubseq(a, Tail(b))

FieldIndex(k, name) ==
    CHOOSE i \in 1..Len(FieldsOf(k)) : FieldsOf(k)[i].Field.Name = name

\* the checks of an earlier field come before those of a later field
FieldsInOrder(k) ==
    \A a, b \in 1..Len(ProcOf(k)) :
        LET sa == ProcOf(k)[a]
            sb == ProcOf(k)[b]
        IN  (/\ a < b
             /\ sa.op = "check" /\ sa.field \in FieldNames(file.Messages[k])
             /\ sb.op = "check" /\ sb.field \in FieldNames(file.Messages[k]))
            => FieldIndex(k, sa.field) <= FieldIndex(k, sb.field)

Ran == run # NoRun /\ run.res # "invalid"
LastSeen == run.ev[Len(run.ev)]
FailingStmt == ProcOf(run.msg)[LastSeen.at]

\* a run evaluates the checks in emission order (iteration by iteration inside a
\* loop), stops at the first one that fails and returns its error
FirstFailureReturned ==
    Ran =>
      /\ \A n \in 1..Len(run.ev) :
            run.ev[n].failed <=> (n = Len(run.ev) /\ run.res = "err")
      /\ \A n, o \in 1..Len(run.ev) :
            n < o => (run.ev[n].at < run.ev[o].at \/ run.ev[n].iter < run.ev[o].iter)
      /\ run.res = "err" =>
            /\ Len(run.ev) > 0
            /\ run.err.key = FailingStmt.key
            /\ run.err.field = FailingStmt.field

DemandedGuards(rules) ==
    Len(SelectSeq(rules, LAMBDA r : r.Key = "not_nil" /\ r.Specified.Bool))

\* C1 as stated: the checks of every field's rules are emitted in the order the
\* rules are declared, field after field, and Validate returns the error of the
\* first check that fails without evaluating any later one.
C1_DeclarationOrder ==
    /\ \A k \in 1..NumProcs :
         /\ FieldsInOrder(k)
         /\ \A i \in 1..Len(FieldsOf(k)) :
              IsSubseq(KeysOf(DirectChecks(k, FieldsOf(k)[i].Field.Name)),
                       RuleKeysOf(FieldsOf(k)[i].Rules))
    /\ FirstFailureReturned

\* C1, amended: the guards of a field's not_nil rules (value true) are emitted first,
\* one per such rule, and the checks of its other rules follow in the order the
\* rules are declared, field after field; a run of the emitted procedure evaluates
\* the checks in emission order and returns the error of the first one that fails
\* without evaluating any later one.
C1_GuardsThenDeclarationOrder ==
    /\ \A k \in 1..NumProcs :
         /\ FieldsInOrder(k)
         /\ \A i \in 1..Len(FieldsOf(k)) :
              LET keys == KeysOf(DirectChecks(k, FieldsOf(k)[i].Field.Name))
                  guards == SelectSeq(keys, LAMBDA key : key = "not_nil")
                  others == SelectSeq(keys, LAMBDA key : key # "not_nil")
                  declared == SelectSeq(RuleKeysOf(FieldsOf(k)[i].Rules),
                                        LAMBDA key : key # "not_nil")
                  demanded == DemandedGuards(FieldsOf(k)[i].Rules)
              IN  /\ keys = guards \o others
                  /\ IsSubseq(others, declared)
                  /\ Len(guards) \in {0, demanded}
                  /\ others # <<>> => Len(guards) = demanded
    /\ FirstFailureReturned

\* a field whose not_nil rule is declared after another rule, both checks emitted,
\* and a run that evaluated both and returned the second one's error
C1_Witness ==
    /\ Ran /\ run.res = "err" /\ Len(run.ev) >= 2
    /\ \E i \in 1..Len(FieldsOf(run.msg)) :
         LET rules == FieldsOf(run.msg)[i].Rules
         IN  /\ Len(rules) = 2
             /\ rules[1].Key # "not_nil"
             /\ rules[2].Key = "not_nil" /\ rules[2].Specified.Bool
             /\ Len(DirectChecks(run.msg, FieldsOf(run.msg)[i].Field.Name)) = 2

\* ---- C3 ----
LoopsAt(k) == {p \in 1..Len(ProcOf(k)) : ProcOf(k)[p].op = "for"}

\* the statements of procedure k that belong to the field called name
Mentions(stmt, name) ==
    \/ stmt.op = "check" /\ stmt.field = name
    \/ ("m." \o name) \in Reads(stmt)

IsGuard(stmt, name) ==
    stmt.op = "check" /\ stmt.key = "not_nil" /\ stmt.field = name

MentionsAt(k, name) == {p \in 1..Len(ProcOf(k)) : Mentions(ProcOf(k)[p], name)}
GuardsAt(k, name) == {p \in 1..Len(ProcOf(k)) : IsGuard(ProcOf(k)[p], name)}

\* inside the loop over the elements, keys or values: the guards of the synthetic
\* context come before its other checks
GuardsFirstInLoop(k, l) ==
    \A p, q \in (l + 1)..(MatchEnd(ProcOf(k), l + 1, 0) - 1) :
        (/\ ProcOf(k)[p].op = "check" /\ ProcOf(k)[q].op = "check"
         /\ ProcOf(k)[p].field = ProcOf(k)[q].field
         /\ ProcOf(k)[p].key = "not_nil" /\ ProcOf(k)[q].key # "not_nil") => p < q

\* C3: for a field carrying a not_nil rule with value true, wherever in its rule
\* list, the nil guard is emitted before every other statement of that field (and,
\* for the inner rules of a list or map, before the other checks of the element,
\* key or value), and a run that evaluates a check of the field evaluates the guard
\* first.
C3_GuardBeforeOtherChecks ==
    /\ \A k \in 1..NumProcs : \A l \in LoopsAt(k) : GuardsFirstInLoop(k, l)
    /\ \A k \in 1..NumProcs : \A i \in 1..Len(FieldsOf(k)) :
         LET name == FieldsOf(k)[i].Field.Name
         IN  DemandedGuards(FieldsOf(k)[i].Rules) > 0 =>
               /\ MentionsAt(k, name) # {} => GuardsAt(k, name) # {}
               /\ \A p \in GuardsAt(k, name) :
                     \A q \in MentionsAt(k, name) \ GuardsAt(k, name) : p < q
               /\ (pc = "done" /\ ret = "") => GuardsAt(k, name) # {}
    /\ Ran =>
         \A i \in 1..Len(FieldsOf(run.msg)) :
            LET name == FieldsOf(run.msg)[i].Field.Name
                seen == {n \in 1..Len(run.ev) :
                            Mentions(ProcOf(run.msg)[run.ev[n].at], name)}
            IN  (DemandedGuards(FieldsOf(run.msg)[i].Rules) > 0 /\ seen # {}) =>
                  IsGuard(ProcOf(run.msg)[run.ev[CHOOSE n \in seen :
                                                     \A o \in seen : n <= o].at], name)

\* a not_nil rule declared last, after a rule that emits a check, and a run that
\* went past the guard to that check
C3_Witness ==
    /\ Ran /\ Len(run.ev) >= 2
    /\ \E i \in 1..Len(FieldsOf(run.msg)) :
         LET rules == FieldsOf(run.msg)[i].Rules
             name == FieldsOf(run.msg)[i].Field.Name
         IN  /\ Len(rules) = 2
             /\ rules[1].Key \notin {"not_nil", "skip"}
             /\ rules[2].Key = "not_nil" /\ rules[2].Specified.Bool
             /\ IsGuard(ProcOf(run.msg)[run.ev[1].at], name)
             /\ ~IsGuard(ProcOf(run.msg)[run.ev[2].at], name)

\* ---- C4 ----
DeclsAt(k) == {p \in 1..Len(ProcOf(k)) : ProcOf(k)[p].op = "decl"}

\* C4: within one message's procedure no two temporary names taken from the
\* identifier allocator are equal, those taken by the synthetic contexts of list
\* elements, map keys and map values included; the counter is back at its start
\* when the compilation of a message begins.
C4_NamesUniquePerMessage ==
    /\ \A k \in 1..NumProcs :
         \A p, q \in DeclsAt(k) : p # q => ProcOf(k)[p].name # ProcOf(k)[q].name
    /\ (pc = "contexts" /\ vi = 1) => g.ids["msg"] = 0

\* a finished procedure with a name taken outside a loop and two taken inside it,
\* by the field's own context and by the synthetic one
C4_Witness ==
    /\ pc = "done" /\ ret = ""
    /\ \E k \in 1..NumProcs :
         \E p, q, r \in DeclsAt(k) : \E l \in LoopsAt(k) :
            p < l /\ l < q /\ q < r

\* ---- C2 ----
RECURSIVE LastOf(_, _)
LastOf(seq, x) ==
    IF seq = <<>> THEN 0
    ELSE IF seq[Len(seq)] = x THEN Len(seq)
    ELSE LastOf(SubSeq(seq, 1, Len(seq) - 1), x)

\* C2 as stated: when Generate returns an error, nothing has been written to the
\* generated file and no emission step ran after the step that failed, the
\* trailing function-import step included.
C2_FailsAtomically ==
    (pc = "done" /\ ret # "") =>
        /\ g.out = <<>>
        /\ LastOf(steps, "generateValidate") = Len(steps)

\* ---- C5 ----
RECURSIVE CallsUnknown(_)
CallsUnknown(v) ==
    /\ v.ValueType = "func"
    /\ \/ v.Function.Name \notin BuiltinFunctions \cup RegisteredFunctions
       \/ \E n \in 1..Len(v.Function.Arguments) : CallsUnknown(v.Function.Arguments[n])

RECURSIVE RuleCallsUnknown(_)
RuleCallsUnknown(rule) ==
    \/ CallsUnknown(rule.Specified)
    \/ \E n \in 1..Len(rule.Range) : CallsUnknown(rule.Range[n])
    \/ \E n \in 1..Len(rule.Inner) : RuleCallsUnknown(rule.Inner[n])

FileCallsUnknown ==
    \E k \in 1..Len(file.Messages) :
        \/ \E n \in 1..Len(file.Messages[k].Rules) :
              RuleCallsUnknown(file.Messages[k].Rules[n])
        \/ \E i \in 1..Len(FieldsOf(k)) : \E n \in 1..Len(FieldsOf(k)[i].Rules) :
              RuleCallsUnknown(FieldsOf(k)[i].Rules[n])

\* C5 as stated: a rule operand that calls a function which is neither built in nor
\* registered, at whatever nesting depth, makes Generate return an error.
C5_UnknownFunctionFails ==
    (pc = "done" /\ FileCallsUnknown) => ret # ""

\* ---- C6 ----
Category(field) ==
    CASE field.IsList -> "list"
      [] field.IsMap -> "map"
      [] field.Kind = "bool" -> "bool"
      [] field.Kind \in NumericKinds -> "numeric"
      [] field.Kind \in {"string", "bytes"} -> "binary"
      [] field.Kind = "enum" -> "enum"
      [] field.Kind = "message" -> "message"
      [] OTHER -> "other"

RecognizedKeys(category) ==
    {"not_nil"} \cup
    CASE category = "bool" -> {"const"}
      [] category = "numeric" -> {"const", "lt", "le", "gt", "ge", "in", "not_in"}
      [] category = "binary" ->
           {"const", "prefix", "suffix", "contains", "not_contains", "pattern",
            "min_size", "max_size", "in", "not_in"}
      [] category = "enum" -> {"const", "defined_only"}
      [] category = "message" -> {"skip"}
      [] category = "list" -> {"min_size", "max_size", "elem"}
      [] category = "map" -> {"min_size", "max_size", "no_sparse", "map_key", "map_value"}
      [] OTHER -> {}

\* the operand types the rule does not support, for the rules the claim names
UnsupportedOperands(category, key) ==
    CASE category = "bool" /\ key = "const" -> {"int", "double", "binary"}
      [] category \in {"binary", "list", "map"} /\ key \in {"min_size", "max_size"} ->
           {"double", "bool"}
      [] OTHER -> {}

\* C6 as stated: a rule whose kind is not recognized for the field's kind, or whose
\* operand type the rule does not support, makes Generate return an error.
C6_UnsupportedRuleFails ==
    (pc = "done" /\ file \in MatrixFiles) =>
        LET field == FieldsOf(1)[2].Field
            rule == FieldsOf(1)[2].Rules[1]
        IN  (/\ Category(field) # "other"
             /\ \/ rule.Key \notin RecognizedKeys(Category(field))
                \/ rule.Specified.ValueType \in UnsupportedOperands(Category(field), rule.Key))
            => ret # ""

\* ---- C7 ----
ConstantsNamed(pkg, enum, value) ==
    {c \in EnumConstants : c.pkg = pkg /\ c.enum = enum /\ c.value.Name = value}

\* the constants an identifier of the given segments names when compiled in pkg
Named(segs, pkg) ==
    CASE Len(segs) = 2 -> ConstantsNamed(pkg, Join(segs[1]), Join(segs[2]))
      [] Len(segs) = 3 -> ConstantsNamed(Join(segs[1]), Join(segs[2]), Join(segs[3]))
      [] OTHER -> {}

SegmentsOf(id) ==
    CHOOSE segs \in SeqsUpTo(Segments, MaxSegs) \ {<<>>} : JoinSegments(segs) = id

SymbolsAt(k) ==
    {p \in 1..Len(ProcOf(k)) : ProcOf(k)[p].op = "decl" /\ ProcOf(k)[p].expr.e = "symbol"}

ChecksIn(stmts) == {p \in 1..Len(stmts) : stmts[p].op = "check"}

\* C7: an enum const identifier E.V compiled in package p, and the identifier p.E.V,
\* are rendered as a symbol of the constant V of enum E of package p, which the
\* field is then compared with; an identifier naming no enum value of the package
\* searched, or of a number of segments other than two or three, makes Generate
\* return an error, and no check is emitted.
C7_EnumConstResolution ==
    (pc = "done" /\ file \in EnumConstFiles) =>
        LET named == Named(SegmentsOf(FieldsOf(1)[2].Rules[1].Specified.Binary),
                           file.Package)
        IN  IF named = {}
            THEN ret # "" /\ ChecksIn(g.out) = {}
            ELSE /\ ret = ""
                 /\ Cardinality(SymbolsAt(1)) = 1
                 /\ \A p \in SymbolsAt(1) :
                       Denoted(ProcOf(1)[p].expr.sym, GoPackageOf(file.Package)) = named
                 /\ Ran => (run.res = "err" <=>
                               run.inst["F"].n \notin {c.value.Number : c \in named})

\* the three-segment identifier of a constant of another package, resolved, and a
\* run that compared the field with it
C7_Witness ==
    /\ pc = "done" /\ ret = "" /\ Ran
    /\ file \in EnumConstFiles
    /\ file.Package = "p"
    /\ FieldsOf(1)[2].Rules[1].Specified.Binary = JoinSegments(<<<<"q">>, <<"E">>, <<"V">>>>)
    /\ run.res = "err"

\* ---- C8 ----
\* C8 as stated: a failure that originates inside a nested message, a list element,
\* a map key or a map value is returned naming the enclosing field, with the
\* original failure kept as its cause.
C8_FailuresWrapped ==
    (Ran /\ run.res = "err"
         /\ (FailingStmt.wraps \/ FailingStmt.field \notin FieldNames(file.Messages[run.msg])
                                  \cup {""})) =>
        /\ run.err.field \in FieldNames(file.Messages[run.msg])
        /\ run.err.cause # <<>>

\* ---- C9 ----
SizeKeys == {"min_size", "max_size"}

\* C9 as stated: the failure of a generated check names the violated rule kind and
\* the field, and carries the field's current value, or the element count when the
\* rule is a size rule.
C9_FailureNamesRuleFieldValue ==
    (Ran /\ run.res = "err" /\ ~FailingStmt.wraps) =>
        /\ run.err.said = FailingStmt.key
        /\ run.err.field # ""
        /\ run.err.carries = IF FailingStmt.key \in SizeKeys THEN "count" ELSE "value"

\* ---- C10 ----
OperandValue(v, inst) ==
    IF v.ValueType = "fieldref" THEN inst[v.FieldReference] ELSE VInt(v.Int)

\* the inner rules whose meaning is spelled out below
Interpretable(rules) ==
    \A n \in 1..Len(rules) :
        \/ rules[n].Key \in {"ge", "le"} /\ rules[n].Specified.ValueType = "int"
        \/ rules[n].Key = "in" /\ \A m \in 1..Len(rules[n].Range) :
                                     rules[n].Range[m].ValueType \in {"int", "fieldref"}
        \/ rules[n].Key \in {"not_nil", "skip"} /\ rules[n].Specified.ValueType = "bool"

\* the element v of a list of the field's kind fails the inner rules
ElemFails(field, rules, v, inst) ==
    \/ \E n \in 1..Len(rules) :
          \/ rules[n].Key = "ge" /\ v.n < rules[n].Specified.Int
          \/ rules[n].Key = "le" /\ v.n > rules[n].Specified.Int
          \/ rules[n].Key = "in" /\ \A m \in 1..Len(rules[n].Range) :
                                       OperandValue(rules[n].Range[m], inst) # v
          \/ rules[n].Key = "not_nil" /\ rules[n].Specified.Bool /\ v.t = "msg" /\ v.nil
    \/ /\ field.Kind = "message"
       /\ \A n \in 1..Len(rules) : ~(rules[n].Key = "skip" /\ rules[n].Specified.Bool)
       /\ v.res = "err"

\* the message's only rule is the element rule of a list field
OnlyElemRule(k, i) ==
    /\ FieldsOf(k)[i].Field.IsList
    /\ Len(FieldsOf(k)[i].Rules) = 1
    /\ FieldsOf(k)[i].Rules[1].Key = "elem"
    /\ Interpretable(FieldsOf(k)[i].Rules[1].Inner)
    /\ file.Messages[k].Rules = <<>>
    /\ \A j \in 1..Len(FieldsOf(k)) : j # i => FieldsOf(k)[j].Rules = <<>>

\* C10 as stated: for a list field with an element rule of inner rules R, Validate
\* fails iff some element fails R, and the failure it returns is that of the
\* element of smallest failing index.
C10_FirstFailingElement ==
    (pc = "done" /\ ret = "" /\ run # NoRun) =>
        \A i \in 1..Len(FieldsOf(run.msg)) :
            OnlyElemRule(run.msg, i) =>
                LET field == FieldsOf(run.msg)[i].Field
                    elems == run.inst[field.Name].l
                    failing == {n \in 1..Len(elems) :
                                   ElemFails(field, FieldsOf(run.msg)[i].Rules[1].Inner,
                                             elems[n], run.inst)}
                IN  /\ run.res \in {"ok", "err"}
                    /\ run.res = "err" <=> failing # {}
                    /\ run.res = "err" =>
                          LastSeen.iter + 1 = CHOOSE n \in failing : \A o \in failing : n <= o

\* ---- C11 ----
\* what an element of the operand set of an in / not_in rule denotes
RangeValue(v, inst) ==
    CASE v.ValueType = "fieldref" -> inst[v.FieldReference]
      [] v.ValueType = "binary" -> VStr(v.Binary)
      [] OTHER -> VInt(v.Int)

RangeValues(vs, inst) == {RangeValue(vs[n], inst) : n \in 1..Len(vs)}

\* the operand set is of the field's type
RangeOfKind(field, vs) ==
    /\ ~field.IsList /\ ~field.IsMap
    /\ \/ /\ field.Kind = "int32"
          /\ \A n \in 1..Len(vs) : vs[n].ValueType \in {"int", "fieldref"}
       \/ /\ field.Kind \in {"string", "bytes"}
          /\ \A n \in 1..Len(vs) : vs[n].ValueType = "binary"

\* the file holds one in or not_in rule, on a field of the operands' type
OneRangeRule ==
    /\ file \in MatrixFiles
    /\ FieldsOf(1)[2].Rules[1].Key \in RangeKeys
    /\ RangeOfKind(FieldsOf(1)[2].Field, FieldsOf(1)[2].Rules[1].Range)

\* C11 as stated: for an operand set S and a field value v the in check fails iff v
\* is not in S and the not_in check fails iff v is in S, whatever the order and the
\* duplicates of S; with an empty S the in rule fails on every value at validation
\* time and the not_in rule on none.
C11_InNotInComplementary ==
    (pc = "done" /\ OneRangeRule) =>
        /\ ret = ""
        /\ run # NoRun =>
              /\ run.res \in {"ok", "err"}
              /\ run.res = "err" <=>
                    ((FieldsOf(1)[2].Rules[1].Key = "in")
                       = (run.inst["F"] \notin RangeValues(FieldsOf(1)[2].Rules[1].Range,
                                                           run.inst)))

\* ---- C12 ----
\* the instance with the entries of the map called name iterated in the order perm
Reordered(inst, name, perm) ==
    [inst EXCEPT ![name] = VMap([n \in 1..Len(inst[name].l) |-> inst[name].l[perm[n]]])]

Orders(n) == {perm \in [1..n -> 1..n] : \A a, b \in 1..n : a # b => perm[a] # perm[b]}

\* the inner rules whose meaning is spelled out in InnerFails
InnerInterpretable(rules) ==
    \A n \in 1..Len(rules) :
        \/ rules[n].Key \in {"ge", "le", "min_size"} /\ rules[n].Specified.ValueType = "int"
        \/ rules[n].Key = "prefix" /\ rules[n].Specified.ValueType = "binary"
        \/ rules[n].Key = "in" /\ rules[n].Range # <<>>
        \/ rules[n].Key \in {"not_nil", "skip"} /\ rules[n].Specified.ValueType = "bool"

\* the key or value v of the given kind violates the inner rules
InnerFails(kind, rules, v, inst) ==
    \/ \E n \in 1..Len(rules) :
          \/ rules[n].Key = "ge" /\ v.n < rules[n].Specified.Int
          \/ rules[n].Key = "le" /\ v.n > rules[n].Specified.Int
          \/ rules[n].Key = "min_size" /\ Len(v.s) < rules[n].Specified.Int
          \/ rules[n].Key = "prefix" /\ ~IsPrefix(rules[n].Specified.Binary, v.s)
          \/ rules[n].Key = "in" /\ v \notin RangeValues(rules[n].Range, inst)
          \/ rules[n].Key = "not_nil" /\ rules[n].Specified.Bool /\ v.t = "msg" /\ v.nil
    \/ /\ kind = "message"
       /\ \A n \in 1..Len(rules) : ~(rules[n].Key = "skip" /\ rules[n].Specified.Bool)
       /\ v.res = "err"

\* entry e of the map field violates the inner rules of one of the rules
EntryFails(field, rules, e, inst) ==
    \E n \in 1..Len(rules) :
        \/ rules[n].Key = "map_key" /\ InnerFails(field.MapKey, rules[n].Inner, e.k, inst)
        \/ rules[n].Key = "map_value" /\ InnerFails(field.MapValue, rules[n].Inner, e.v, inst)

\* field i of message k is a map whose rules are map_key and map_value rules, and
\* nothing else of the message has rules
OnlyEntryRules(k, i) ==
    /\ FieldsOf(k)[i].Field.IsMap
    /\ FieldsOf(k)[i].Rules # <<>>
    /\ \A n \in 1..Len(FieldsOf(k)[i].Rules) :
          /\ FieldsOf(k)[i].Rules[n].Key \in {"map_key", "map_value"}
          /\ InnerInterpretable(FieldsOf(k)[i].Rules[n].Inner)
    /\ file.Messages[k].Rules = <<>>
    /\ \A j \in 1..Len(FieldsOf(k)) : j # i => FieldsOf(k)[j].Rules = <<>>

\* C12: for a map field with map_key and map_value rules, Validate gives the same
\* outcome whatever the order its entries are iterated in; it fails iff some entry
\* violates the inner rules, and the failure it returns comes from the check of an
\* entry that violates them.
C12_MapOrderIrrelevant ==
    Ran =>
        \A i \in 1..Len(FieldsOf(run.msg)) :
            OnlyEntryRules(run.msg, i) =>
                LET field == FieldsOf(run.msg)[i].Field
                    rules == FieldsOf(run.msg)[i].Rules
                    entries == run.inst[field.Name].l
                IN  /\ \A perm \in Orders(Len(entries)) :
                          RunValidate(g.out, file.Messages, run.msg,
                                      Reordered(run.inst, field.Name, perm), VNone,
                                      file.Package).res = run.res
                    /\ run.res = "err" <=>
                          \E n \in 1..Len(entries) : EntryFails(field, rules, entries[n], run.inst)
                    /\ run.res = "err" =>
                          /\ FailingStmt.field \in {"k", "v"}
                          /\ EntryFails(field, rules, entries[LastSeen.iter + 1], run.inst)

\* a map of two entries of which only the one iterated second violates the inner
\* rules, and the run that returned its failure
C12_Witness ==
    /\ Ran /\ run.res = "err"
    /\ \E i \in 1..Len(FieldsOf(run.msg)) :
          /\ OnlyEntryRules(run.msg, i)
          /\ Len(run.inst[FieldsOf(run.msg)[i].Field.Name].l) = 2
          /\ LastSeen.iter = 1
          /\ ~EntryFails(FieldsOf(run.msg)[i].Field, FieldsOf(run.msg)[i].Rules,
                         run.inst[FieldsOf(run.msg)[i].Field.Name].l[1], run.inst)

\* ---- C13 ----
Funcs == Positions(g.out, "func", 1)
Closes == Positions(g.out, "close", 1)

\* the custom function templates whose rendering is in the output
TemplatesIn(stmts) ==
    {stmts[p].expr.f : p \in {q \in 1..Len(stmts) :
                                 stmts[q].op = "decl" /\ stmts[q].expr.e = "template"}}

\* C13: when Generate returns nil the output is the header, the package clause and
\* the unused-protection block, then one Validate procedure per message in the order
\* of the schema, each closed before the next one opens and nothing between them;
\* the imports of the custom function templates used are gathered by the last step,
\* after the last procedure, and not before.
C13_EmissionOrder ==
    /\ LastOf(steps, "generateFuncsImport") = 0 => imports = {}
    /\ (pc = "done" /\ ret = "") =>
          /\ Len(g.out) >= 3
          /\ g.out[1] = Stmt("header")
          /\ g.out[2] = [op |-> "package", name |-> file.Package]
          /\ g.out[3] = Stmt("unused protection")
          /\ \A p \in 4..Len(g.out) :
                g.out[p].op \notin {"header", "package", "unused protection"}
          /\ Len(Funcs) = Len(file.Messages)
          /\ Len(Closes) = Len(file.Messages)
          /\ \A k \in 1..Len(Funcs) :
                /\ g.out[Funcs[k]].name = file.Messages[k].Name
                /\ Funcs[k] = IF k = 1 THEN 4 ELSE Closes[k - 1] + 2
                /\ Funcs[k] < Closes[k]
                /\ g.out[Closes[k] - 1] = Stmt("return nil")
                /\ g.out[Closes[k] + 1] = Blank
          /\ Len(g.out) = IF Funcs = <<>> THEN 3 ELSE Closes[Len(Closes)] + 1
          /\ steps = <<"generateHeader", "generatePackage", "generateImportAndGuard">>
                     \o [n \in 1..(Len(steps) - 4) |-> "generateValidate"]
                     \o <<"generateFuncsImport">>
          /\ imports = UNION {GetFunction(f).Import : f \in TemplatesIn(g.out)}

\* a finished run over two messages, each with checks, that used a custom template
\* with imports
C13_Witness ==
    /\ pc = "done" /\ ret = ""
    /\ Len(file.Messages) = 2
    /\ imports # {}
    /\ \A k \in 1..2 : ChecksIn(ProcOf(k)) # {}

\* ---- C14 ----
TempPrefixes == {"_src", "_exist", "_elem", "_assert"}

\* the names the identifier allocator can have handed out while stmts were written
TempNames(stmts) == {prefix \o ToString(n) : prefix \in TempPrefixes, n \in 0..Len(stmts)}

\* every temporary name read in stmts[i..] was declared earlier, in an open block
RECURSIVE TempsDeclared(_, _, _)
TempsDeclared(stmts, i, scopes) ==
    IF i > Len(stmts) THEN TRUE
    ELSE LET stmt == stmts[i]
             scope == UNION {scopes[k] : k \in 1..Len(scopes)}
             top == Len(scopes)
         IN  /\ (Reads(stmt) \cap TempNames(stmts)) \subseteq scope
             /\ CASE stmt.op = "decl" ->
                       TempsDeclared(stmts, i + 1, [scopes EXCEPT ![top] = @ \cup {stmt.name}])
                  [] stmt.op = "for" -> TempsDeclared(stmts, i + 1, Append(scopes, {stmt.var}))
                  [] stmt.op = "end" -> TempsDeclared(stmts, i + 1, SubSeq(scopes, 1, top - 1))
                  [] OTHER -> TempsDeclared(stmts, i + 1, scopes)

\* the undeclared reads the claim names: an in / not_in rule of a string or bytes
\* field whose slice is not built, a function argument whose own call does not compile
RECURSIVE ArgumentFails(_)
ArgumentFails(v) ==
    /\ v.ValueType = "func"
    /\ \E n \in 1..Len(v.Function.Arguments) :
          LET a == v.Function.Arguments[n]
          IN  /\ a.ValueType = "func"
              /\ \/ a.Function.Name \notin BuiltinFunctions \cup {"custom", "plain"}
                 \/ a.Function.Name \in {"equal", "mod", "add"} /\ Len(a.Function.Arguments) < 2
                 \/ ArgumentFails(a)

RECURSIVE RuleLeavesUndeclared(_)
RuleLeavesUndeclared(rule) ==
    \/ rule.Key \in RangeKeys /\ rule.Range = <<>>
    \/ ArgumentFails(rule.Specified)
    \/ \E n \in 1..Len(rule.Inner) : RuleLeavesUndeclared(rule.Inner[n])

FileLeavesUndeclared ==
    \E k \in 1..Len(file.Messages) :
        \/ \E n \in 1..Len(file.Messages[k].Rules) :
              RuleLeavesUndeclared(file.Messages[k].Rules[n])
        \/ \E i \in 1..Len(FieldsOf(k)) : \E n \in 1..Len(FieldsOf(k)[i].Rules) :
              RuleLeavesUndeclared(FieldsOf(k)[i].Rules[n])

\* C14 as stated: when Generate returns nil, every temporary name that an emitted
\* statement reads was declared by a statement emitted earlier in the same procedure,
\* in an enclosing block.
C14_TemporariesDeclared ==
    (pc = "done" /\ ret = "") =>
        \A k \in 1..NumProcs : TempsDeclared(ProcOf(k), 1, <<{}>>)

\* ---- C15 ----
\* the rules whose check compares the field with the rule's operand
OperandKeys ==
    {"const", "lt", "le", "gt", "ge", "min_size", "max_size", "prefix", "suffix",
     "contains", "not_contains", "pattern", "in", "not_in"}

\* the operand texts that materialize the rule's own operand: its literal, its field
\* reference, or a temporary name; nothing where no operand is materialized
Materialized(rule, stmts) ==
    TempNames(stmts) \cup {""}
    \cup CASE rule.Specified.ValueType = "int" -> {FormatInt(rule.Specified.Int)}
           [] rule.Specified.ValueType = "double" -> {FormatFloat(rule.Specified.Double)}
           [] rule.Specified.ValueType = "bool" -> {FormatBool(rule.Specified.Bool)}
           [] rule.Specified.ValueType = "fieldref" ->
                {GetFieldReferenceName(rule.Specified, "m.")}
           [] OTHER -> {}

OperandChecks(k, name) ==
    SelectSeq(ProcOf(k), LAMBDA stmt : /\ stmt.op = "check" /\ stmt.field = name
                                       /\ ~stmt.wraps /\ stmt.key \in OperandKeys)

OperandRules(rules) == SelectSeq(rules, LAMBDA r : r.Key \in OperandKeys)

\* a temporary operand is compared by one check only
TemporaryReadOnce(k) ==
    \A p, q \in 1..Len(ProcOf(k)) :
        (/\ p < q
         /\ ProcOf(k)[p].op \in {"check", "scan"}
         /\ ProcOf(k)[q].op = "check"
         /\ ProcOf(k)[q].cond.s \in TempNames(ProcOf(k)))
        => ProcOf(k)[q].cond.s \notin Reads(ProcOf(k)[p])

\* C15 as stated: the comparison emitted for a rule of a field uses the operand
\* materialized from that same rule, never the operand of an earlier rule of the
\* field.
C15_OperandOfSameRule ==
    \A k \in 1..NumProcs :
        /\ TemporaryReadOnce(k)
        /\ \A i \in 1..Len(FieldsOf(k)) :
              LET checks == OperandChecks(k, FieldsOf(k)[i].Field.Name)
                  rules == OperandRules(FieldsOf(k)[i].Rules)
              IN  /\ Len(checks) <= Len(rules)
                  /\ \A n \in 1..Len(checks) :
                        /\ checks[n].key = rules[n].Key
                        /\ checks[n].cond.s \in Materialized(rules[n], ProcOf(k))

\* the rules an earlier rule's operand can leak into: those whose operand type the
\* validator neither materializes nor rejects
Unmaterialized(field, rule) ==
    rule.Specified.ValueType \in
        CASE Category(field) = "bool" /\ rule.Key = "const" -> {"int", "double", "binary", "func"}
          [] Category(field) = "binary" /\ rule.Key \in SizeKeys -> {"double", "bool", "binary"}
          [] Category(field) \in {"list", "map"} /\ rule.Key \in SizeKeys ->
               {"double", "bool", "binary"}
          [] OTHER -> {}

FileLeavesUnmaterialized ==
    \E k \in 1..Len(file.Messages) : \E i \in 1..Len(FieldsOf(k)) :
        \E n \in 1..Len(FieldsOf(k)[i].Rules) :
            Unmaterialized(FieldsOf(k)[i].Field, FieldsOf(k)[i].Rules[n])

\* ---- C16 ----
FlagKeys == {"not_nil", "defined_only", "skip", "no_sparse"}

FalseFlag(rule) ==
    rule.Key \in FlagKeys /\ rule.Specified.ValueType = "bool" /\ ~rule.Specified.Bool

\* the rules without the boolean-flag rules of value false, at every depth
RECURSIVE WithoutFalseFlags(_)
WithoutFalseFlags(rules) ==
    IF rules = <<>> THEN <<>>
    ELSE IF FalseFlag(Head(rules)) THEN WithoutFalseFlags(Tail(rules))
    ELSE <<[Head(rules) EXCEPT !.Inner = WithoutFalseFlags(@)]>>
         \o WithoutFalseFlags(Tail(rules))

\* the field a list element, a map key or a map value is compiled as
InnerField(field, key) ==
    [field EXCEPT !.IsList = FALSE, !.IsMap = FALSE,
                  !.Kind = CASE key = "map_key" -> field.MapKey
                             [] key = "map_value" -> field.MapValue
                             [] OTHER -> field.Kind]

\* every flag rule of value false is on a field of the kind the flag is for
RECURSIVE FalseFlagsApply(_, _)
FalseFlagsApply(field, rules) ==
    \A n \in 1..Len(rules) :
        /\ FalseFlag(rules[n]) =>
              CASE rules[n].Key = "defined_only" -> Category(field) = "enum"
                [] rules[n].Key = "skip" -> Category(field) = "message"
                [] rules[n].Key = "no_sparse" -> Category(field) = "map"
                [] OTHER -> Category(field) # "other"
        /\ rules[n].Key \in InnerKeys =>
              FalseFlagsApply(InnerField(field, rules[n].Key), rules[n].Inner)

\* C16 as stated: a not_nil, defined_only, skip or no_sparse rule of value false
\* emits no check and changes nothing in the generated procedure: compiling a
\* field's rules gives what compiling them without these rules gives.
C16_FalseFlagsEmitNothing ==
    (/\ pc = "contexts" /\ vi <= Len(vcs)
     /\ vcs[vi].ValidationType = "Field"
     /\ FalseFlagsApply(vcs[vi].RawField, vcs[vi].Rules)) =>
        generateValidateBody(vcs[vi], g)
          = generateValidateBody([vcs[vi] EXCEPT !.Rules = WithoutFalseFlags(@)], g)

\* the false flags that do change the procedure: no_sparse, not_nil on a list or a
\* map, and the flags that are all the rules a message-typed field has
FalseFlagShows(field, rules) ==
    \/ \E n \in 1..Len(rules) :
          /\ FalseFlag(rules[n])
          /\ \/ rules[n].Key = "no_sparse"
             \/ rules[n].Key = "not_nil" /\ (field.IsList \/ field.IsMap)
    \/ /\ Category(field) = "message"
       /\ rules # <<>> /\ WithoutFalseFlags(rules) = <<>>

\* ---- C17 ----
\* the accessor of the context a check was emitted for: the member of m for a field
\* of the message, the loop-bound name for a list element, a map key or a map value
Accessor(k, stmt) ==
    IF stmt.field \in FieldNames(file.Messages[k]) THEN "m." \o stmt.field
    ELSE stmt.field

\* the checks that test the context's value itself (an in check tests the flag of
\* its scan, an assert its function's result, no_sparse the values of the map)
TestsTheValue(stmt) ==
    stmt.op = "check" /\ stmt.key \notin {"in", "assert", "no_sparse"}

\* C17 as stated: every check emitted for a validation context reads the value
\* through the context's own accessor; in the context of a list element, a map key
\* or a map value that is the loop-bound name, the not_nil guard included.
C17_ChecksReadOwnAccessor ==
    \A k \in 1..NumProcs : \A p \in 1..Len(ProcOf(k)) :
        TestsTheValue(ProcOf(k)[p]) => ProcOf(k)[p].cond.t = Accessor(k, ProcOf(k)[p])

\* an inner rule list demands a nil guard
RECURSIVE InnerGuardDemanded(_)
InnerGuardDemanded(rules) ==
    \E n \in 1..Len(rules) :
        /\ rules[n].Key \in InnerKeys
        /\ \/ DemandedGuards(rules[n].Inner) > 0
           \/ InnerGuardDemanded(rules[n].Inner)

====
